---------------------------- MODULE Spec2Model ----------------------------
(***************************************************************************)
(* Model of the UUB acquisition tools of uub-sdk:                          *)
(*   adc_check_ramp/adc_check_ramp.c  (self-test: one event, evaluate)     *)
(*   netscope/netscope.c              (streaming: events over UDP)         *)
(*   adcramp/adcramp.c                (ramp on/off by UDP commands)        *)
(* The trigger hardware (status register, ring buffers, release register) *)
(* is the environment.  Sizes are scaled down: the scaling definitions are *)
(* the bounds below, and every program constant is derived from them or   *)
(* kept at its source value.                                               *)
(***************************************************************************)
EXTENDS Integers, Sequences, FiniteSets, TLC

(* ------------------------------ bounds --------------------------------- *)
\* samples per slot and channel in the model (SHWR_NSAMPLES is 2048)
MaxSamples == 3
\* ring-buffer slots per channel in the model
Slots == 2
\* triggers the hardware fires in one run
MaxTriggers == 5
\* width of the event id counter in the model (uint32_t is 32)
IdBits == 2
\* how far beyond the slot the START register value may lie
StartExcess == 1
\* control datagrams that wait on the control port at once
MaxCtrl == 1
\* seeds of the staging-buffer patterns of the unit specification
MaxSeed == 3
\* bytes of one fragment datagram in the model (PACKETSIZE is 1400)
MaxPacket == 28
\* width of an address in bits
AddrBits == 10
\* datagrams sent to adcramp in one run
MaxMsgs == 2

(* ------------------------- program constants --------------------------- *)
SHWR_MAX_VAL == 4096
SHWR_RAW_NCH_MAX == 5
SHWR_NCH_MAX == 2 * SHWR_RAW_NCH_MAX
SHWR_NSAMPLES == MaxSamples
\* SHWR_NSAMPLES as the source defines it
SHWR_NSAMPLES_SOURCE == 2048
\* adc_check_ramp.c: DATASIZE counts words
DATASIZE == SHWR_NSAMPLES * SHWR_RAW_NCH_MAX
SIG_WAKEUP == 48
SIG_ERROR == -1
\* netscope.c: sizes in bytes
PACKETSIZE == MaxPacket
FRAG_HEADER_SIZE == 8
SHWR_HEADER_SIZE == 28
NS_DATASIZE == 4 * SHWR_NSAMPLES * SHWR_RAW_NCH_MAX
WBUFSIZE == FRAG_HEADER_SIZE + NS_DATASIZE
UINT16_MOD == 65536
BUFSIZE == 1
\* 0xfff and >> 16 of convert_databuf
SAMPLE_MASK_MOD == 4096
SAMPLE_SHIFT_DIV == 65536
\* the event id counter is a uint32_t: arithmetic modulo 2^width
IdModulus == 2 ^ IdBits
\* 0x80000000: the top bit of the id
ID_TAG == 2 ^ (IdBits - 1)

(* ----------------- hardware interface (sde_trigger_defs.h) ------------- *)
\* number of slots of a ring buffer
SHWR_MEM_NBUF == Slots
\* bytes of one slot: one event's samples of one raw channel
SHWR_MEM_DEPTH == 4 * SHWR_NSAMPLES
\* bytes of the window read_evt_init maps for one ring buffer
ShwrWindowBytes == SHWR_MEM_DEPTH * SHWR_MEM_NBUF
\* the status register, as its fields
StatusReg(nfull, rnum) == [nfull |-> nfull, rnum |-> rnum]
\* (*st) & (SHWR_BUF_NFULL_MASK << SHWR_BUF_NFULL_SHIFT)
BufNFull(st) == st.nfull
\* ((*st) >> SHWR_BUF_RNUM_SHIFT) & SHWR_BUF_RNUM_MASK
BufRnum(st) == st.rnum
\* SHWR_BUF_TRIG_MASK register: the value the tool finds, and SHWR_BUF_TRIG_LED
TrigMaskAsFound == 1
SHWR_BUF_TRIG_LED == 2
\* values the START register may hold: the code reads all 32 bits
StartValues == 0 .. (SHWR_NSAMPLES + StartExcess)
\* the values the START register takes in a run of a tool: the first and the
\* last offset of a slot, and offsets beyond the slot
HwStartValues ==
  {0, SHWR_NSAMPLES - 1} \cup (SHWR_NSAMPLES .. SHWR_NSAMPLES + StartExcess - 1)

\* the word the hardware stored at word j of a slot of channel ch for its
\* g-th trigger: two 12-bit samples, bits 12..15 and 28..30 are not sample
\* bits
HwWord(g, ch, j) ==
  LET lo == (37 * g + 5 * ch + j) % 4096
      hi == (41 * g + 3 * ch + 2 * j + 1) % 4096
      jl == (g + ch + j) % 16
      jh == (g + 2 * ch + j + 1) % 8
  IN  lo + 4096 * jl + 65536 * hi + 268435456 * jh


(* ------------------------------- state --------------------------------- *)
VARIABLES
  prog,        \* which program runs: "netscope", "adc_check_ramp", "unit"
  pc,          \* position of the single thread of control
  hw,          \* trigger hardware: status fields, slot contents, LED pulse
  ctrlQ,       \* datagrams waiting on the control port (their lengths)
  sig,         \* read_evt_read: local sig
  rd,          \* read_evt_read: local rd
  ci,          \* read_evt_read: local i of the copy loop
  rdret,       \* value read_evt_read returned last
  databuf,     \* staging buffer, DATASIZE words
  sh,          \* struct shwr_header sh
  id_counter,  \* gl.id_counter
  traces,      \* uint16_t traces[SHWR_NCH_MAX][SHWR_NSAMPLES]
  adc,         \* convert_databuf: local adc
  result,      \* exit status of the process (-1 while it runs)
  snd,         \* senddata: locals id, start, end (offsets into workbuf)
  sent,        \* history: datagrams handed to sendto since the last read began
  woken,       \* history: sigwaitinfo returned SIG_WAKEUP in this call
  calllog,     \* history: copies, header read, register writes of this call
  nDrained,    \* history: calls of read_evt_read that drained a slot
  held,        \* history: slots copied from and not yet released
  evlog,       \* history: stages completed since the last call of read_evt_read
  convReads,   \* history: staging indices convert_databuf read, per channel
  runs,        \* history: completed runs of convert_databuf
  prevTraces,  \* history: traces as the previous run of convert_databuf left it
  workhead,    \* netscope: workbuf[0 .. 7], the bytes in front of databuf
  payload0,    \* history: databuf as it was when senddata was entered
  maps,        \* regions mapped by read_evt_init and not unmapped
  handlers,    \* functions registered with atexit, last registered last
  adcfd,       \* int adcfd[SHWR_RAW_NCH_MAX]
  failedadcfd, \* int failedadcfd
  adcmode,     \* the test-mode register of every ADC (-1: as found)
  saved_trigger, \* uint32_t saved_trigger
  ai,          \* read_evt_init, adc_settestmode: local i
  testmode,    \* adc_settestmode: parameter testmode
  endRun,      \* history: read_evt_end was run
  spilog,      \* history: the SPI register writes attempted and the closes
  msgQ,        \* adcramp: datagrams waiting on the control socket
  buf,         \* adcramp: char buf[MSGLEN]
  lastc,       \* adcramp: local c of main
  resp,        \* adcramp: local resp of main
  si,          \* adcramp: local i of main
  replies,     \* history: datagrams adcramp handed to sendto
  recvd,       \* history: lengths of the datagrams adcramp took from the socket
  dbase,       \* adc_check_ramp: the address of _databuf
  dbptr        \* adc_check_ramp: the pointer databuf, as an address

vars == <<prog, pc, hw, ctrlQ, sig, rd, ci, rdret, databuf, sh, id_counter,
          traces, adc, result, snd, sent, woken, calllog, nDrained, held,
          evlog, convReads, runs, prevTraces, workhead, payload0, maps,
          handlers, adcfd, failedadcfd, adcmode, saved_trigger, ai, testmode,
          endRun, spilog, msgQ, buf, lastc, resp, si, replies, recvd, dbase,
          dbptr>>

\* the state of adcramp
srvVars == <<msgQ, buf, lastc, resp, si, replies, recvd>>

\* the state of the alignment of databuf
alignVars == <<dbase, dbptr>>

RD_OK == 0
RD_NODATA == 1

\* SPI codes and exit codes of adc_check_ramp.c
RAMPON == 15
RAMPOFF == 0
EXIT_SPIWRITE == 39
EXIT_EVTDEVMEM == 60
EXIT_EVTMAPTRIG == 61
EXIT_EVTMAPTIME == 62
EXIT_EVTMAPTEST == 63
EXIT_EVTMAPSHWR == 64
EXIT_EVTSIGNAL == 65
EXIT_EVTTIMER == 66
EXIT_EVTSETTIME == 67
\* exit(1) of netscope.c
EXIT_NETSCOPE == 1
EXIT_BUFALIGN == 50
EXIT_NOPER == 32
EXIT_OPENSPI == 33
EXIT_SPIWRMODE == 34
EXIT_SPIRDMODE == 35
EXIT_SPIBITPERW == 36
EXIT_SPIWRSPEED == 37
EXIT_SPIRDSPEED == 38

\* adcramp.c
MSGLEN == 18
NADC == 5
MASK_CMD == 64
MASK_ON == 32
MASK_ADC == 28
SH_ADC == 2
MASK_CHS == 3
CMD_QUIT == 33
RESP_BASE == 32
RESP_ERR == 16

\* char buf[MSGLEN] of adcramp.c, a global: all NUL at the start
NulBuf == [n \in 0 .. MSGLEN - 1 |-> 0]

\* an entry of spilog: adc_write(fd, ADDR_CHS, v) is "chs", adc_write(fd,
\* ADDR_TEST, v) is "test", close(fd) is "close"; ok tells whether the
\* transfer completed, mode is the test mode the caller is setting
SpiOp(op, fd, v, ok, mode) ==
  [op |-> op, fd |-> fd, v |-> v, ok |-> ok, mode |-> mode]

\* the regions read_evt_init maps, in its order: gl.regs, gl.tt_regs,
\* gl.tstctl_regs, gl.shwr_pt[0 .. 4]
Regions ==
  << <<"regs", 0>>, <<"tt_regs", 0>>, <<"tstctl_regs", 0>> >> \o
  [i \in 1 .. SHWR_RAW_NCH_MAX |-> <<"shwr_pt", i - 1>>]

\* the file descriptor openspidev returned for ADC i
SpiFd(i) == 3 + i

NoAdcFd == [i \in 0 .. SHWR_RAW_NCH_MAX - 1 |-> -1]

AdcAsFound == [i \in 0 .. SHWR_RAW_NCH_MAX - 1 |-> -1]

ZeroHeader ==
  [id |-> 0, shwr_buf_status |-> StatusReg(0, 0), shwr_buf_start |-> 0,
   shwr_buf_trig_id |-> 0, ttag_shwr_seconds |-> 0, ttag_shwr_nanosec |-> 0,
   rd |-> 0]

ZeroTraces == [ch \in 0 .. SHWR_NCH_MAX - 1 |-> [i \in 0 .. SHWR_NSAMPLES - 1 |-> 0]]

ZeroBuf == [k \in 0 .. DATASIZE - 1 |-> 0]

\* nfull full slots from slot rnum on, fired triggers so far, start: the
\* value of the START register (the start offset of the read slot)
HwInit ==
  [nfull |-> 0, rnum |-> 0, fired |-> 0, led |-> FALSE, start |-> 0,
   mask |-> TrigMaskAsFound]

(* ----------------------------- hardware -------------------------------- *)
\* gl.regs[SHWR_BUF_STATUS_ADDR]
HwStatus == StatusReg(hw.nfull, hw.rnum)

\* the number of the trigger whose data a slot holds, 0 for a free slot: the
\* full slots are the nfull slots from rnum on and hold the last nfull triggers
SlotGen(h, slot) ==
  LET k == (slot - h.rnum + SHWR_MEM_NBUF) % SHWR_MEM_NBUF
  IN  IF slot \in 0 .. SHWR_MEM_NBUF - 1 /\ k < h.nfull
      THEN h.fired - h.nfull + 1 + k
      ELSE 0

\* word k of the mapped ring buffer of channel ch
RingWord(ch, k) ==
  LET slot == k \div SHWR_NSAMPLES
      j    == k % SHWR_NSAMPLES
  IN  IF SlotGen(hw, slot) > 0 THEN HwWord(SlotGen(hw, slot), ch, j) ELSE 0

\* the trigger fires: the write slot is filled and counted full; the START
\* register shows the start offset of the read slot, so the offset of a slot
\* filled behind another is chosen when it becomes the read slot
HwTrigger ==
  /\ pc # "exit"
  /\ prog \in {"netscope", "adc_check_ramp"}
  /\ prog = "adc_check_ramp" => hw.led
  /\ hw.fired < MaxTriggers
  /\ hw.nfull < SHWR_MEM_NBUF
  /\ \E s \in (IF hw.nfull = 0 THEN HwStartValues ELSE {hw.start}) :
       hw' = [hw EXCEPT !.nfull = @ + 1,
                        !.fired = @ + 1,
                        !.led = FALSE,
                        !.start = s]
  /\ UNCHANGED <<spilog, srvVars, alignVars,
                 workhead, payload0, maps, handlers, adcfd, failedadcfd, adcmode,
                 saved_trigger, ai, testmode, endRun,
                 prog, pc, ctrlQ, sig, rd, ci, rdret, databuf, sh, id_counter,
                 traces, adc, result, snd, sent, woken, calllog, nDrained,
                 held, evlog, convReads, runs, prevTraces>>

\* the hardware's reaction to a write of v to SHWR_BUF_CONTROL: the read slot
\* is free again and the next one, with start offset s, becomes the read slot
HwRelease(h, v, s) ==
  IF h.nfull > 0
  THEN [h EXCEPT !.nfull = @ - 1, !.rnum = (@ + 1) % SHWR_MEM_NBUF,
                 !.start = IF h.nfull > 1 THEN s ELSE @]
  ELSE h

\* lengths of the datagrams sent to the control port: empty, and longer than
\* the buffer of controlrecv
CtrlLens == {0, BUFSIZE + 1}

\* a datagram of len bytes arrives on the control port
CtrlArrive ==
  /\ prog = "netscope"
  /\ pc # "exit"
  /\ Len(ctrlQ) < MaxCtrl
  /\ \E len \in CtrlLens : ctrlQ' = Append(ctrlQ, len)
  /\ UNCHANGED <<spilog, srvVars, alignVars,
                 workhead, payload0, maps, handlers, adcfd, failedadcfd, adcmode,
                 saved_trigger, ai, testmode, endRun,
                 prog, pc, hw, sig, rd, ci, rdret, databuf, sh, id_counter,
                 traces, adc, result, snd, sent, woken, calllog, nDrained,
                 held, evlog, convReads, runs, prevTraces>>

(* ------------------------------- exit ---------------------------------- *)
\* exit(code): the functions registered with atexit run, then the process ends
Exit(code) ==
  /\ result' = code
  /\ pc' = IF handlers = <<>> THEN "exit" ELSE "x_next"

\* exit(code) called by a function that exit() itself is running: the
\* behaviour is undefined; the C libraries either go on with the functions
\* still registered or end the process
ExitAgain(code) ==
  /\ result' = code
  /\ pc' \in {"x_next", "exit"}

\* the exit code of a failure in read_evt_init
InitExitCode(code) == IF prog = "netscope" THEN EXIT_NETSCOPE ELSE code

\* the function registered last and not yet run is read_evt_end
exit_read_evt_end ==
  /\ pc = "x_next"
  /\ handlers # <<>>
  /\ handlers[Len(handlers)] = "read_evt_end"
  /\ handlers' = SubSeq(handlers, 1, Len(handlers) - 1)
  /\ maps' = {}
  /\ endRun' = TRUE
  /\ UNCHANGED <<spilog, srvVars, alignVars,
                 prog, pc, hw, ctrlQ, sig, rd, ci, rdret, databuf, sh,
                 id_counter, traces, adc, result, snd, sent, woken, calllog,
                 nDrained, held, evlog, convReads, runs, prevTraces, workhead,
                 payload0, adcfd, failedadcfd, adcmode, saved_trigger, ai,
                 testmode>>

\* restore_trigger: if(gl.regs) gl.regs[SHWR_BUF_TRIG_MASK_ADDR] = saved_trigger
exit_restore_trigger ==
  /\ pc = "x_next"
  /\ handlers # <<>>
  /\ handlers[Len(handlers)] = "restore_trigger"
  /\ handlers' = SubSeq(handlers, 1, Len(handlers) - 1)
  /\ hw' = IF <<"regs", 0>> \in maps THEN [hw EXCEPT !.mask = saved_trigger]
           ELSE hw
  /\ UNCHANGED <<spilog, srvVars, alignVars,
                 prog, pc, ctrlQ, sig, rd, ci, rdret, databuf, sh, id_counter,
                 traces, adc, result, snd, sent, woken, calllog, nDrained,
                 held, evlog, convReads, runs, prevTraces, workhead, payload0,
                 maps, adcfd, failedadcfd, adcmode, saved_trigger, ai,
                 testmode, endRun>>

\* adc_normal: adc_settestmode(RAMPOFF)
exit_adc_normal ==
  /\ pc = "x_next"
  /\ handlers # <<>>
  /\ handlers[Len(handlers)] = "adc_normal"
  /\ handlers' = SubSeq(handlers, 1, Len(handlers) - 1)
  /\ testmode' = RAMPOFF
  /\ ai' = 0
  /\ pc' = "a_chs"
  /\ UNCHANGED <<spilog, srvVars, alignVars,
                 prog, hw, ctrlQ, sig, rd, ci, rdret, databuf, sh, id_counter,
                 traces, adc, result, snd, sent, woken, calllog, nDrained,
                 held, evlog, convReads, runs, prevTraces, workhead, payload0,
                 maps, adcfd, failedadcfd, adcmode, saved_trigger, endRun>>

\* adc_normal after adc_settestmode: close(adcfd[i]); adcfd[i] = -1
adc_normal_close ==
  /\ pc = "x_close"
  /\ spilog' = spilog \o [i \in 1 .. SHWR_RAW_NCH_MAX |->
                            SpiOp("close", adcfd[i - 1], 0, TRUE, RAMPOFF)]
  /\ adcfd' = NoAdcFd
  /\ pc' = "x_next"
  /\ UNCHANGED <<srvVars, alignVars,
                 prog, hw, ctrlQ, sig, rd, ci, rdret, databuf, sh, id_counter,
                 traces, adc, result, snd, sent, woken, calllog, nDrained,
                 held, evlog, convReads, runs, prevTraces, workhead, payload0,
                 maps, handlers, failedadcfd, adcmode, saved_trigger, ai,
                 testmode, endRun>>

\* no registered function is left to run: the process ends
exit_done ==
  /\ pc = "x_next"
  /\ handlers = <<>>
  /\ pc' = "exit"
  /\ UNCHANGED <<spilog, srvVars, alignVars,
                 prog, hw, ctrlQ, sig, rd, ci, rdret, databuf, sh, id_counter,
                 traces, adc, result, snd, sent, woken, calllog, nDrained,
                 held, evlog, convReads, runs, prevTraces, workhead, payload0,
                 maps, handlers, adcfd, failedadcfd, adcmode, saved_trigger,
                 ai, testmode, endRun>>

(* --------------------------- read_evt_init ----------------------------- *)
\* fd = open("/dev/mem", O_RDWR)
read_evt_init_open ==
  /\ pc = "i_open"
  /\ \/ /\ pc' = "i_map"
        /\ ai' = 0
        /\ UNCHANGED result
     \/ /\ Exit(InitExitCode(EXIT_EVTDEVMEM))
        /\ UNCHANGED ai
  /\ UNCHANGED <<spilog, srvVars, alignVars,
                 prog, hw, ctrlQ, sig, rd, ci, rdret, databuf, sh, id_counter,
                 traces, adc, snd, sent, woken, calllog, nDrained, held,
                 evlog, convReads, runs, prevTraces, workhead, payload0, maps,
                 handlers, adcfd, failedadcfd, adcmode, saved_trigger,
                 testmode, endRun>>

\* the exit code of a failing mmap of a region
MapExitCode(region) ==
  InitExitCode(IF region[1] = "regs" THEN EXIT_EVTMAPTRIG
               ELSE IF region[1] = "tt_regs" THEN EXIT_EVTMAPTIME
               ELSE IF region[1] = "tstctl_regs" THEN EXIT_EVTMAPTEST
               ELSE EXIT_EVTMAPSHWR)

\* pt = mmap(...); if(pt == MAP_FAILED) exit(..); gl.<region> = pt
read_evt_init_mmap ==
  /\ pc = "i_map"
  /\ ai < Len(Regions)
  /\ \/ /\ maps' = maps \cup {Regions[ai + 1]}
        /\ ai' = ai + 1
        /\ pc' = IF ai + 1 < Len(Regions) THEN "i_map" ELSE "i_sig"
        /\ UNCHANGED result
     \/ /\ Exit(MapExitCode(Regions[ai + 1]))
        /\ UNCHANGED <<maps, ai>>
  /\ UNCHANGED <<spilog, srvVars, alignVars,
                 prog, hw, ctrlQ, sig, rd, ci, rdret, databuf, sh, id_counter,
                 traces, adc, snd, sent, woken, calllog, nDrained, held,
                 evlog, convReads, runs, prevTraces, workhead, payload0,
                 handlers, adcfd, failedadcfd, adcmode, saved_trigger,
                 testmode, endRun>>

\* sigemptyset, sigaddset, sigprocmask
read_evt_init_signal ==
  /\ pc = "i_sig"
  /\ \/ /\ pc' = "i_timer"
        /\ UNCHANGED result
     \/ Exit(InitExitCode(EXIT_EVTSIGNAL))
  /\ UNCHANGED <<spilog, srvVars, alignVars,
                 prog, hw, ctrlQ, sig, rd, ci, rdret, databuf, sh, id_counter,
                 traces, adc, snd, sent, woken, calllog, nDrained, held,
                 evlog, convReads, runs, prevTraces, workhead, payload0, maps,
                 handlers, adcfd, failedadcfd, adcmode, saved_trigger, ai,
                 testmode, endRun>>

\* timer_create, timer_settime, gl.id_counter = 0
read_evt_init_timer ==
  /\ pc = "i_timer"
  /\ \/ /\ id_counter' = 0
        /\ pc' = IF prog = "netscope" THEN "n_setup" ELSE "m_setup"
        /\ UNCHANGED result
     \/ /\ \E code \in {EXIT_EVTTIMER, EXIT_EVTSETTIME} : Exit(InitExitCode(code))
        /\ UNCHANGED id_counter
  /\ UNCHANGED <<spilog, srvVars, alignVars,
                 prog, hw, ctrlQ, sig, rd, ci, rdret, databuf, sh, traces, adc,
                 snd, sent, woken, calllog, nDrained, held, evlog, convReads,
                 runs, prevTraces, workhead, payload0, maps, handlers, adcfd,
                 failedadcfd, adcmode, saved_trigger, ai, testmode, endRun>>

(* --------------------- adc_write, adc_settestmode ---------------------- *)
SetTestModeMoreShort(i) == i < SHWR_RAW_NCH_MAX - 1

\* the loop condition of adc_settestmode: i < SHWR_RAW_NCH_MAX
SetTestModeMore(i) == i < SHWR_RAW_NCH_MAX

\* adc_write fails: failedadcfd = adcfd; exit(EXIT_SPIWRITE)
AdcWriteFails ==
  /\ failedadcfd' = adcfd[ai]
  /\ IF testmode = RAMPOFF THEN ExitAgain(EXIT_SPIWRITE) ELSE Exit(EXIT_SPIWRITE)

\* the head of the loop of adc_settestmode for ADC ai, with
\* adc_write(fd, ADDR_CHS, MASK_CHS)
adc_settestmode_chs ==
  /\ pc = "a_chs"
  /\ SetTestModeMore(ai)
  /\ IF adcfd[ai] < 0 \/ adcfd[ai] = failedadcfd
     THEN /\ ai' = ai + 1
          /\ pc' = "a_chs"
          /\ UNCHANGED <<result, failedadcfd, spilog>>
     ELSE \/ /\ pc' = "a_test"
             /\ spilog' = Append(spilog, SpiOp("chs", adcfd[ai], MASK_CHS, TRUE, testmode))
             /\ UNCHANGED <<result, failedadcfd, ai>>
          \/ /\ AdcWriteFails
             /\ spilog' = Append(spilog, SpiOp("chs", adcfd[ai], MASK_CHS, FALSE,
                                                testmode))
             /\ UNCHANGED ai
  /\ UNCHANGED <<srvVars, alignVars,
                 prog, hw, ctrlQ, sig, rd, ci, rdret, databuf, sh, id_counter,
                 traces, adc, snd, sent, woken, calllog, nDrained, held,
                 evlog, convReads, runs, prevTraces, workhead, payload0, maps,
                 handlers, adcfd, adcmode, saved_trigger, testmode, endRun>>

\* adc_write(fd, ADDR_TEST, testmode)
adc_settestmode_test ==
  /\ pc = "a_test"
  /\ \/ /\ adcmode' = [adcmode EXCEPT ![ai] = testmode]
        /\ spilog' = Append(spilog, SpiOp("test", adcfd[ai], testmode, TRUE, testmode))
        /\ ai' = ai + 1
        /\ pc' = "a_chs"
        /\ UNCHANGED <<result, failedadcfd>>
     \/ /\ AdcWriteFails
        /\ spilog' = Append(spilog, SpiOp("test", adcfd[ai], testmode, FALSE,
                                           testmode))
        /\ UNCHANGED <<adcmode, ai>>
  /\ UNCHANGED <<srvVars, alignVars,
                 prog, hw, ctrlQ, sig, rd, ci, rdret, databuf, sh, id_counter,
                 traces, adc, snd, sent, woken, calllog, nDrained, held,
                 evlog, convReads, runs, prevTraces, workhead, payload0, maps,
                 handlers, adcfd, saved_trigger, testmode, endRun>>

\* the loop of adc_settestmode is over: back in main or in adc_normal
adc_settestmode_return ==
  /\ pc = "a_chs"
  /\ ~SetTestModeMore(ai)
  /\ pc' = IF testmode = RAMPON THEN "m_atexit" ELSE "x_close"
  /\ UNCHANGED <<spilog, srvVars, alignVars,
                 prog, hw, ctrlQ, sig, rd, ci, rdret, databuf, sh, id_counter,
                 traces, adc, result, snd, sent, woken, calllog, nDrained,
                 held, evlog, convReads, runs, prevTraces, workhead, payload0,
                 maps, handlers, adcfd, failedadcfd, adcmode, saved_trigger,
                 ai, testmode, endRun>>

(* --------------------------- read_evt_read ----------------------------- *)
ReadPcs == {"rd_test", "rd_wait", "rd_rnum", "rd_copy", "rd_hdr", "rd_release",
            "rd_incr"}

\* where read_evt_read returns to
AfterRead == IF prog = "netscope" THEN "s_hdr" ELSE "cv_loop"

SlotOffsetNext(r) == (r + 1) * SHWR_NSAMPLES

\* offset = rd * SHWR_NSAMPLES
SlotOffset(r) == r * SHWR_NSAMPLES

WaitCondInverted(st, s) == BufNFull(st) # 0 /\ s = SIG_WAKEUP

WaitCondOnce(st, s) == BufNFull(st) = 0 /\ s = SIG_WAKEUP /\ ~woken

\* the condition of the wait loop: ((*st) & aux) == 0 && sig == SIG_WAKEUP
WaitCond(st, s) == BufNFull(st) = 0 /\ s = SIG_WAKEUP

CopyNextShort(i) ==
  IF i + 1 < SHWR_RAW_NCH_MAX - 1 THEN "rd_copy" ELSE "rd_hdr"

\* for(i = 0; i < SHWR_RAW_NCH_MAX; i++): where the copy loop goes after
\* the pass for channel i
CopyNext(i) == IF i + 1 < SHWR_RAW_NCH_MAX THEN "rd_copy" ELSE "rd_hdr"

NextIdSkip(c) == (c + 2) % IdModulus

\* gl.id_counter++ on a uint32_t
NextId(c) == (c + 1) % IdModulus

\* entry of read_evt_read: sig = SIG_WAKEUP
CallRead ==
  /\ pc' = "rd_test"
  /\ sig' = SIG_WAKEUP
  /\ ci' = 0
  /\ woken' = FALSE
  /\ calllog' = <<>>
  /\ evlog' = <<>>
  /\ sent' = <<>>
  /\ payload0' = ZeroBuf

\* while( ((*st) & aux) == 0 && sig == SIG_WAKEUP), then if(sig == SIG_WAKEUP)
read_evt_read_test ==
  /\ pc = "rd_test"
  /\ IF WaitCond(HwStatus, sig)
     THEN /\ pc' = "rd_wait"
          /\ UNCHANGED <<rdret, adc>>
     ELSE IF sig = SIG_WAKEUP
          THEN /\ pc' = "rd_rnum"
               /\ UNCHANGED <<rdret, adc>>
          ELSE /\ pc' = AfterRead
               /\ rdret' = RD_NODATA
               /\ adc' = 0
  /\ UNCHANGED <<spilog, srvVars, alignVars,
                 workhead, payload0, maps, handlers, adcfd, failedadcfd, adcmode,
                 saved_trigger, ai, testmode, endRun,
                 prog, hw, ctrlQ, sig, rd, ci, databuf, sh, id_counter, traces,
                 result, snd, sent, woken, calllog, nDrained, held, evlog,
                 convReads, runs, prevTraces>>

\* sig = sigwaitinfo(&gl.sigset, NULL): the periodic signal, or an error
read_evt_read_wait ==
  /\ pc = "rd_wait"
  /\ \E s \in {SIG_WAKEUP, SIG_ERROR} :
       /\ sig' = s
       /\ woken' = (woken \/ s = SIG_WAKEUP)
  /\ pc' = "rd_test"
  /\ UNCHANGED <<spilog, srvVars, alignVars,
                 workhead, payload0, maps, handlers, adcfd, failedadcfd, adcmode,
                 saved_trigger, ai, testmode, endRun,
                 prog, hw, ctrlQ, rd, ci, rdret, databuf, sh, id_counter,
                 traces, adc, result, snd, sent, calllog, nDrained, held,
                 evlog, convReads, runs, prevTraces>>

\* rd = (((*st) >> SHWR_BUF_RNUM_SHIFT) & SHWR_BUF_RNUM_MASK)
read_evt_read_rnum ==
  /\ pc = "rd_rnum"
  /\ rd' = BufRnum(HwStatus)
  /\ ci' = 0
  /\ pc' = "rd_copy"
  /\ UNCHANGED <<spilog, srvVars, alignVars,
                 workhead, payload0, maps, handlers, adcfd, failedadcfd, adcmode,
                 saved_trigger, ai, testmode, endRun,
                 prog, hw, ctrlQ, sig, rdret, databuf, sh, id_counter, traces,
                 adc, result, snd, sent, woken, calllog, nDrained, held, evlog,
                 convReads, runs, prevTraces>>

\* one pass of the copy loop: memcpy(buf, gl.shwr_pt[i] + offset, ...);
\* buf += SHWR_NSAMPLES
read_evt_read_copy ==
  /\ pc = "rd_copy"
  /\ ci < SHWR_RAW_NCH_MAX
  /\ LET dst == ci * SHWR_NSAMPLES
         src == SlotOffset(rd)
     IN  /\ databuf' = [k \in DOMAIN databuf |->
                          IF k \in dst .. dst + SHWR_NSAMPLES - 1
                          THEN RingWord(ci, src + (k - dst))
                          ELSE databuf[k]]
         /\ calllog' = Append(calllog, [op |-> "copy", a |-> src, b |-> dst])
         /\ held' = held \cup {src \div SHWR_NSAMPLES}
  /\ ci' = ci + 1
  /\ pc' = CopyNext(ci)
  /\ UNCHANGED <<spilog, srvVars, alignVars,
                 workhead, payload0, maps, handlers, adcfd, failedadcfd, adcmode,
                 saved_trigger, ai, testmode, endRun,
                 prog, hw, ctrlQ, sig, rd, rdret, sh, id_counter, traces, adc,
                 result, snd, sent, woken, nDrained, evlog, convReads, runs,
                 prevTraces>>

\* sh->id = gl.id_counter; ... sh->rd = rd
read_evt_read_hdr ==
  /\ pc = "rd_hdr"
  /\ sh' = [id |-> id_counter,
            shwr_buf_status |-> HwStatus,
            shwr_buf_start |-> hw.start,
            shwr_buf_trig_id |-> SlotGen(hw, hw.rnum),
            ttag_shwr_seconds |-> SlotGen(hw, hw.rnum),
            ttag_shwr_nanosec |-> SlotGen(hw, hw.rnum),
            rd |-> rd]
  /\ calllog' = Append(calllog, [op |-> "hdr", a |-> rd, b |-> id_counter])
  /\ pc' = "rd_release"
  /\ UNCHANGED <<spilog, srvVars, alignVars,
                 workhead, payload0, maps, handlers, adcfd, failedadcfd, adcmode,
                 saved_trigger, ai, testmode, endRun,
                 prog, hw, ctrlQ, sig, rd, ci, rdret, databuf, id_counter,
                 traces, adc, result, snd, sent, woken, nDrained, held, evlog,
                 convReads, runs, prevTraces>>

read_evt_read_norelease ==
  /\ pc = "rd_release"
  /\ pc' = "rd_incr"
  /\ UNCHANGED <<spilog, srvVars, alignVars,
                 workhead, payload0, maps, handlers, adcfd, failedadcfd, adcmode,
                 saved_trigger, ai, testmode, endRun,
                 prog, hw, ctrlQ, sig, rd, ci, rdret, databuf, sh, id_counter,
                 traces, adc, result, snd, sent, woken, calllog, nDrained,
                 held, evlog, convReads, runs, prevTraces>>

\* gl.regs[SHWR_BUF_CONTROL_ADDR] = rd
read_evt_read_release ==
  /\ pc = "rd_release"
  /\ \E s \in (IF hw.nfull > 1 THEN HwStartValues ELSE {hw.start}) :
       hw' = HwRelease(hw, rd, s)
  /\ calllog' = Append(calllog, [op |-> "release", a |-> rd, b |-> 0])
  /\ held' = held \ {rd}
  /\ pc' = "rd_incr"
  /\ UNCHANGED <<spilog, srvVars, alignVars,
                 workhead, payload0, maps, handlers, adcfd, failedadcfd, adcmode,
                 saved_trigger, ai, testmode, endRun,
                 prog, ctrlQ, sig, rd, ci, rdret, databuf, sh, id_counter,
                 traces, adc, result, snd, sent, woken, nDrained, evlog,
                 convReads, runs, prevTraces>>

\* gl.id_counter++; return(0)
read_evt_read_incr ==
  /\ pc = "rd_incr"
  /\ id_counter' = NextId(id_counter)
  /\ calllog' = Append(calllog, [op |-> "incr", a |-> id_counter, b |-> 0])
  /\ nDrained' = nDrained + 1
  /\ rdret' = RD_OK
  /\ evlog' = <<"read">>
  /\ adc' = 0
  /\ pc' = AfterRead
  /\ UNCHANGED <<spilog, srvVars, alignVars,
                 workhead, payload0, maps, handlers, adcfd, failedadcfd, adcmode,
                 saved_trigger, ai, testmode, endRun,
                 prog, hw, ctrlQ, sig, rd, ci, databuf, sh, traces, result,
                 snd, sent, woken, held, convReads, runs, prevTraces>>

(* -------------------------- convert_databuf ---------------------------- *)
\* values a read beyond the staging buffer may yield
OobWords == {0, 135270401}

\* where convert_databuf returns to
AfterConvert == IF prog = "unit" THEN "cv_done" ELSE "t_eval"

\* the staging indices the inner loop reads in n passes starting at cur:
\* if( ++cur_ptr == stop_ptr) cur_ptr = stop_ptr - SHWR_NSAMPLES
RECURSIVE ConvWalk(_, _, _)
ConvWalk(cur, stop, n) ==
  IF n = 0 THEN <<>>
  ELSE <<cur>> \o ConvWalk(IF cur + 1 = stop THEN stop - SHWR_NSAMPLES
                                              ELSE cur + 1,
                           stop, n - 1)

\* stop_ptr = databuf + (adc+1)*SHWR_NSAMPLES;
\* cur_ptr = databuf + adc*SHWR_NSAMPLES + sh.shwr_buf_start
ConvIndices(a, start) ==
  ConvWalk(a * SHWR_NSAMPLES + start, (a + 1) * SHWR_NSAMPLES, SHWR_NSAMPLES)

\* *cur_ptr & 0xfff
SampleLow(w) == w % SAMPLE_MASK_MOD

SampleHighWide(w) == (w \div SAMPLE_SHIFT_DIV) % UINT16_MOD

\* (*cur_ptr >> 16) & 0xfff
SampleHigh(w) == (w \div SAMPLE_SHIFT_DIV) % SAMPLE_MASK_MOD

\* one pass of the outer loop of convert_databuf: raw channel adc
convert_databuf_channel ==
  /\ pc = "cv_loop"
  /\ adc < SHWR_RAW_NCH_MAX
  /\ LET idx == ConvIndices(adc, sh.shwr_buf_start)
         oob == \E n \in 1 .. Len(idx) : idx[n] \notin DOMAIN databuf
     IN  \E junk \in (IF oob THEN OobWords ELSE {0}) :
           LET W(k) == IF k \in DOMAIN databuf THEN databuf[k] ELSE junk
           IN  /\ traces' = [traces EXCEPT
                    ![2 * adc] = [i \in 0 .. SHWR_NSAMPLES - 1 |->
                                    SampleLow(W(idx[i + 1]))],
                    ![2 * adc + 1] = [i \in 0 .. SHWR_NSAMPLES - 1 |->
                                    SampleHigh(W(idx[i + 1]))]]
               /\ convReads' = [convReads EXCEPT ![adc] = idx]
  /\ adc' = adc + 1
  /\ IF adc + 1 < SHWR_RAW_NCH_MAX
     THEN /\ pc' = "cv_loop"
          /\ UNCHANGED <<runs, evlog>>
     ELSE /\ pc' = AfterConvert
          /\ runs' = runs + 1
          /\ evlog' = Append(evlog, "unpack")
  /\ UNCHANGED <<spilog, srvVars, alignVars,
                 workhead, payload0, maps, handlers, adcfd, failedadcfd, adcmode,
                 saved_trigger, ai, testmode, endRun,
                 prog, hw, ctrlQ, sig, rd, ci, rdret, databuf, sh, id_counter,
                 result, snd, sent, woken, calllog, nDrained, held,
                 prevTraces>>

\* convert_databuf is called once more on the same databuf and header
convert_again ==
  /\ prog = "unit"
  /\ pc = "cv_done"
  /\ runs < 2
  /\ prevTraces' = traces
  /\ adc' = 0
  /\ convReads' = [a \in 0 .. SHWR_RAW_NCH_MAX - 1 |-> <<>>]
  /\ pc' = "cv_loop"
  /\ UNCHANGED <<spilog, srvVars, alignVars,
                 workhead, payload0, maps, handlers, adcfd, failedadcfd, adcmode,
                 saved_trigger, ai, testmode, endRun,
                 prog, hw, ctrlQ, sig, rd, ci, rdret, databuf, sh, id_counter,
                 traces, result, snd, sent, woken, calllog, nDrained, held,
                 evlog, runs>>

(* --------------------------- evaluate_ramp ----------------------------- *)
RampMismatchNoPair(tr, ch, i) ==
  (tr[2 * ch][i] + i) % SHWR_MAX_VAL # tr[2 * ch][0]

\* the test of the inner loop, with sum = trace[2*ch][0]:
\* trace[2*ch][i] != trace[2*ch+1][i] || (trace[2*ch][i] + i) % SHWR_MAX_VAL != sum
RampMismatch(tr, ch, i) ==
  \/ tr[2 * ch][i] # tr[2 * ch + 1][i]
  \/ (tr[2 * ch][i] + i) % SHWR_MAX_VAL # tr[2 * ch][0]

\* 1 << ch
RampBit(ch) == 2 ^ ch

\* the inner loop of evaluate_ramp from sample i on: 1 << ch at the first
\* mismatch (break), 0 when the loop runs to its end
RECURSIVE RampScan(_, _, _)
RampScan(tr, ch, i) ==
  IF i >= SHWR_NSAMPLES THEN 0
  ELSE IF RampMismatch(tr, ch, i)
       THEN RampBit(ch)
       ELSE RampScan(tr, ch, i + 1)

\* the outer loop from channel ch on: result |= ... once per channel
RECURSIVE RampChannels(_, _)
RampChannels(tr, ch) ==
  IF ch >= SHWR_RAW_NCH_MAX THEN 0
  ELSE RampScan(tr, ch, 0) + RampChannels(tr, ch + 1)

evaluate_ramp(tr) == RampChannels(tr, 0)

\* evaluate_ramp is called on a trace
evaluate_ramp_call ==
  /\ prog = "unit"
  /\ pc = "ev_call"
  /\ result' = evaluate_ramp(traces)
  /\ pc' = "ev_done"
  /\ UNCHANGED <<spilog, srvVars, alignVars,
                 workhead, payload0, maps, handlers, adcfd, failedadcfd, adcmode,
                 saved_trigger, ai, testmode, endRun,
                 prog, hw, ctrlQ, sig, rd, ci, rdret, databuf, sh, id_counter,
                 traces, adc, snd, sent, woken, calllog, nDrained, held,
                 evlog, convReads, runs, prevTraces>>

(* ------------------------- netscope: senddata -------------------------- *)
\* byte b of a 32-bit word in memory, lowest byte first
ByteOf(w, b) == (w \div (256 ^ b)) % 256

\* a uint32_t and a uint16_t in memory
LE32(v) == <<ByteOf(v, 0), ByteOf(v, 1), ByteOf(v, 2), ByteOf(v, 3)>>

LE16(v) == <<v % 256, (v \div 256) % 256>>

\* struct frag_header in memory; start and end are uint16_t
FragHeaderBytes(id, start, end) ==
  LE32(id) \o LE16(start % UINT16_MOD) \o LE16(end % UINT16_MOD)

\* the fields of the struct frag_header at the head of a datagram
FhId(d) == d[1] + 256 * d[2] + 65536 * d[3] + 16777216 * d[4]

FhStart(d) == d[5] + 256 * d[6]

FhEnd(d) == d[7] + 256 * d[8]

\* byte o of workbuf: databuf is workbuf + sizeof(struct frag_header)
WorkByte(wh, db, o) ==
  IF o < FRAG_HEADER_SIZE THEN wh[o + 1]
  ELSE ByteOf(db[(o - FRAG_HEADER_SIZE) \div 4], (o - FRAG_HEADER_SIZE) % 4)

\* the bytes of databuf
PayloadBytes(db) == [n \in 1 .. NS_DATASIZE |-> ByteOf(db[(n - 1) \div 4], (n - 1) % 4)]

\* sh.id |= 0x80000000
TagId(id) == IF (id \div ID_TAG) % 2 = 1 THEN id ELSE id + ID_TAG

FhAtAhead(start) == start + FRAG_HEADER_SIZE

\* fh = (struct frag_header *)start
FhAt(start) == start

FragEndShort(start) ==
  IF start + PACKETSIZE - 1 > WBUFSIZE THEN WBUFSIZE ELSE start + PACKETSIZE - 1

\* if ((end = start + PACKETSIZE) > endbuf) end = endbuf
FragEnd(start) ==
  IF start + PACKETSIZE > WBUFSIZE THEN WBUFSIZE ELSE start + PACKETSIZE

FhStartFieldWork(start) == start + FRAG_HEADER_SIZE

\* fh->start = start - workbuf
FhStartField(start) == start

\* uint32_t id = sh.id; sh.id |= 0x80000000; sendto(header)
senddata_header ==
  /\ pc = "s_hdr"
  /\ sh' = [sh EXCEPT !.id = TagId(sh.id)]
  /\ \/ /\ snd' = [id |-> sh.id, start |-> 0, end |-> 0]
        /\ sent' = <<[kind |-> "hdr", id |-> TagId(sh.id), start |-> 0,
                      end |-> 0, size |-> SHWR_HEADER_SIZE, payload |-> <<>>]>>
        /\ payload0' = databuf
        /\ evlog' = Append(evlog, "header")
        /\ pc' = "s_frag"
        /\ UNCHANGED result
     \/ /\ Exit(EXIT_NETSCOPE)
        /\ UNCHANGED <<snd, sent, evlog, payload0>>
  /\ UNCHANGED <<spilog, srvVars, alignVars,
                 prog, hw, ctrlQ, sig, rd, ci, rdret, databuf, id_counter,
                 traces, adc, woken, calllog, nDrained, held, convReads, runs,
                 prevTraces, workhead, maps, handlers, adcfd, failedadcfd,
                 adcmode, saved_trigger, ai, testmode, endRun>>

\* one pass of the fragment loop:
\* for(start = end = workbuf; end < endbuf; start = end - sizeof(struct frag_header))
\* the frag_header is written into workbuf at start, then the bytes from start
\* to end are sent
senddata_fragment ==
  /\ pc = "s_frag"
  /\ snd.end < WBUFSIZE
  /\ LET end == FragEnd(snd.start)
         at  == FhAt(snd.start)
         hb  == FragHeaderBytes(snd.id, FhStartField(snd.start),
                                end - FRAG_HEADER_SIZE)
         wb(o) == IF o >= at /\ o < at + FRAG_HEADER_SIZE
                  THEN hb[o - at + 1]
                  ELSE WorkByte(workhead, databuf, o)
         dg  == [n \in 1 .. end - snd.start |-> wb(snd.start + n - 1)]
     IN  /\ workhead' = [n \in 1 .. FRAG_HEADER_SIZE |-> wb(n - 1)]
         /\ databuf' = [k \in DOMAIN databuf |->
                          wb(FRAG_HEADER_SIZE + 4 * k)
                          + 256 * wb(FRAG_HEADER_SIZE + 4 * k + 1)
                          + 65536 * wb(FRAG_HEADER_SIZE + 4 * k + 2)
                          + 16777216 * wb(FRAG_HEADER_SIZE + 4 * k + 3)]
         /\ \/ /\ sent' = Append(sent,
                            [kind |-> "frag", id |-> FhId(dg),
                             start |-> FhStart(dg), end |-> FhEnd(dg),
                             size |-> Len(dg),
                             payload |-> SubSeq(dg, FRAG_HEADER_SIZE + 1, Len(dg))])
               /\ snd' = [snd EXCEPT !.start = end - FRAG_HEADER_SIZE,
                                     !.end = end]
               /\ evlog' = Append(evlog, "fragment")
               /\ pc' = "s_frag"
               /\ UNCHANGED result
            \/ /\ Exit(EXIT_NETSCOPE)
               /\ UNCHANGED <<snd, sent, evlog>>
  /\ UNCHANGED <<spilog, srvVars, alignVars,
                 prog, hw, ctrlQ, sig, rd, ci, rdret, sh, id_counter, traces,
                 adc, woken, calllog, nDrained, held, convReads, runs,
                 prevTraces, payload0, maps, handlers, adcfd, failedadcfd,
                 adcmode, saved_trigger, ai, testmode, endRun>>

\* the fragment loop ends, senddata returns, main logs "sent id ..."
senddata_return ==
  /\ pc = "s_frag"
  /\ snd.end >= WBUFSIZE
  /\ evlog' = Append(evlog, "sent")
  /\ pc' = "n_poll"
  /\ UNCHANGED <<spilog, srvVars, alignVars,
                 prog, hw, ctrlQ, sig, rd, ci, rdret, databuf, sh, id_counter,
                 traces, adc, result, snd, sent, woken, calllog, nDrained,
                 held, convReads, runs, prevTraces, workhead, payload0, maps,
                 handlers, adcfd, failedadcfd, adcmode, saved_trigger, ai,
                 testmode, endRun>>

(* --------------------------- netscope: main ---------------------------- *)
\* main between read_evt_init and the loop: the trigger selected at build
\* time, gl.tstctl_regs[USE_FAKE_ADDR] |= 1 << USE_FAKE_PPS_BIT
netscope_setup ==
  /\ pc = "n_setup"
  /\ pc' = "n_poll"
  /\ UNCHANGED <<spilog, srvVars, alignVars,
                 prog, hw, ctrlQ, sig, rd, ci, rdret, databuf, sh, id_counter,
                 traces, adc, result, snd, sent, woken, calllog, nDrained,
                 held, evlog, convReads, runs, prevTraces, workhead, payload0,
                 maps, handlers, adcfd, failedadcfd, adcmode, saved_trigger,
                 ai, testmode, endRun>>

\* msglen = recvfrom(sock, buf, BUFSIZE, MSG_DONTWAIT, NULL, NULL)
controlrecv(q) ==
  IF q = <<>> THEN -1
  ELSE IF q[1] > BUFSIZE THEN BUFSIZE ELSE q[1]

\* the condition of the loop of main: controlrecv(controlsock) <= 0
PollContinues(r) == r <= 0

\* while(controlrecv(controlsock) <= 0) { read_evt_read(&sh, databuf); ...
netscope_poll ==
  /\ pc = "n_poll"
  /\ ctrlQ' = IF ctrlQ = <<>> THEN ctrlQ ELSE Tail(ctrlQ)
  /\ IF PollContinues(controlrecv(ctrlQ))
     THEN CallRead
     ELSE /\ pc' = "n_end"
          /\ UNCHANGED <<sig, ci, woken, calllog, evlog, sent, payload0>>
  /\ UNCHANGED <<spilog, srvVars, alignVars,
                 prog, hw, rd, rdret, databuf, sh, id_counter, traces, adc,
                 result, snd, nDrained, held, convReads, runs, prevTraces,
                 workhead, maps, handlers, adcfd, failedadcfd, adcmode,
                 saved_trigger, ai, testmode, endRun>>

\* read_evt_end(); close(controlsock); close(datasock); return(0)
netscope_end ==
  /\ pc = "n_end"
  /\ maps' = {}
  /\ endRun' = TRUE
  /\ Exit(0)
  /\ UNCHANGED <<spilog, srvVars, alignVars,
                 prog, hw, ctrlQ, sig, rd, ci, rdret, databuf, sh, id_counter,
                 traces, adc, snd, sent, woken, calllog, nDrained, held,
                 evlog, convReads, runs, prevTraces, workhead, payload0,
                 handlers, adcfd, failedadcfd, adcmode, saved_trigger, ai,
                 testmode>>

(* ------------------------- adc_check_ramp: main ------------------------ *)
\* addresses are AddrBits wide
AddrModulus == 2 ^ AddrBits

\* the size of _databuf in bytes: uint32_t _databuf[DATASIZE + 2]
BackingBytes == 4 * (DATASIZE + 2)

AlignPtrOver(a) == ((((a + 8) % AddrModulus) \div 8) * 8 + 4) % AddrModulus

\* (((((uintptr_t)_databuf + 7) >> 3) << 3) + 4)
AlignPtr(a) == ((((a + 7) % AddrModulus) \div 8) * 8 + 4) % AddrModulus

\* databuf < _databuf || databuf >= _databuf + 8 || ((uintptr_t)databuf & 7) != 4
AlignProblem(base, ptr) == ptr < base \/ ptr >= base + 4 * 8 \/ ptr % 8 # 4

\* main: make databuf aligned to 8*n + 4 and check it
check_ramp_align ==
  /\ pc = "m_align"
  /\ dbptr' = AlignPtr(dbase)
  /\ ai' = 0
  /\ IF AlignProblem(dbase, AlignPtr(dbase))
     THEN Exit(EXIT_BUFALIGN)
     ELSE pc' = "m_spi" /\ UNCHANGED result
  /\ UNCHANGED <<prog, hw, ctrlQ, sig, rd, ci, rdret, databuf, sh, id_counter,
                 traces, adc, snd, sent, woken, calllog, nDrained, held,
                 evlog, convReads, runs, prevTraces, workhead, payload0, maps,
                 handlers, adcfd, failedadcfd, adcmode, saved_trigger,
                 testmode, endRun, spilog, srvVars, dbase>>

\* the exit codes of openspidev and spi_init
SpiInitExitCodes ==
  {EXIT_OPENSPI, EXIT_SPIWRMODE, EXIT_SPIRDMODE, EXIT_SPIBITPERW,
   EXIT_SPIWRSPEED, EXIT_SPIRDSPEED}

\* main: fd = openspidev(i); spi_init(fd); adcfd[i] = fd
check_ramp_openspi ==
  /\ pc = "m_spi"
  /\ ai < SHWR_RAW_NCH_MAX
  /\ \/ /\ adcfd' = [adcfd EXCEPT ![ai] = SpiFd(ai)]
        /\ ai' = ai + 1
        /\ pc' = IF ai + 1 < SHWR_RAW_NCH_MAX THEN "m_spi" ELSE "i_open"
        /\ UNCHANGED result
     \/ /\ \E code \in SpiInitExitCodes : Exit(code)
        /\ UNCHANGED <<adcfd, ai>>
  /\ UNCHANGED <<prog, hw, ctrlQ, sig, rd, ci, rdret, databuf, sh, id_counter,
                 traces, adc, snd, sent, woken, calllog, nDrained, held,
                 evlog, convReads, runs, prevTraces, workhead, payload0, maps,
                 handlers, failedadcfd, adcmode, saved_trigger, testmode,
                 endRun, spilog, srvVars, alignVars>>

\* atexit(read_evt_end); saved_trigger = gl.regs[SHWR_BUF_TRIG_MASK_ADDR];
\* gl.regs[SHWR_BUF_TRIG_MASK_ADDR] = SHWR_BUF_TRIG_LED;
\* atexit(restore_trigger); fake GPS; the call adc_settestmode(RAMPON)
check_ramp_setup ==
  /\ pc = "m_setup"
  /\ handlers' = handlers \o <<"read_evt_end", "restore_trigger">>
  /\ saved_trigger' = hw.mask
  /\ hw' = [hw EXCEPT !.mask = SHWR_BUF_TRIG_LED]
  /\ testmode' = RAMPON
  /\ ai' = 0
  /\ pc' = "a_chs"
  /\ UNCHANGED <<spilog, srvVars, alignVars,
                 prog, ctrlQ, sig, rd, ci, rdret, databuf, sh, id_counter,
                 traces, adc, result, snd, sent, woken, calllog, nDrained,
                 held, evlog, convReads, runs, prevTraces, workhead, payload0,
                 maps, adcfd, failedadcfd, adcmode, endRun>>

\* atexit(adc_normal), after adc_settestmode(RAMPON) has returned
check_ramp_atexit_normal ==
  /\ pc = "m_atexit"
  /\ handlers' = Append(handlers, "adc_normal")
  /\ pc' = "t_led"
  /\ UNCHANGED <<spilog, srvVars, alignVars,
                 prog, hw, ctrlQ, sig, rd, ci, rdret, databuf, sh, id_counter,
                 traces, adc, result, snd, sent, woken, calllog, nDrained,
                 held, evlog, convReads, runs, prevTraces, workhead, payload0,
                 maps, adcfd, failedadcfd, adcmode, saved_trigger, ai,
                 testmode, endRun>>

\* LED_trigger(): gl.regs[LED_CONTROL_ADDR] = 0; = 1; usleep(100)
LED_trigger ==
  /\ pc = "t_led"
  /\ hw' = [hw EXCEPT !.led = TRUE]
  /\ pc' = "t_read"
  /\ UNCHANGED <<spilog, srvVars, alignVars,
                 prog, ctrlQ, sig, rd, ci, rdret, databuf, sh, id_counter,
                 traces, adc, result, snd, sent, woken, calllog, nDrained,
                 held, evlog, convReads, runs, prevTraces, workhead, payload0,
                 maps, handlers, adcfd, failedadcfd, adcmode, saved_trigger,
                 ai, testmode, endRun>>

\* duration = read_evt_read(&sh, databuf)
check_ramp_read ==
  /\ pc = "t_read"
  /\ CallRead
  /\ UNCHANGED <<spilog, srvVars, alignVars,
                 prog, hw, ctrlQ, rd, rdret, databuf, sh, id_counter, traces,
                 adc, result, snd, nDrained, held, convReads, runs, prevTraces,
                 workhead, maps, handlers, adcfd, failedadcfd, adcmode,
                 saved_trigger, ai, testmode, endRun>>

\* result = evaluate_ramp(traces); return(result)
check_ramp_evaluate ==
  /\ pc = "t_eval"
  /\ Exit(evaluate_ramp(traces))
  /\ evlog' = Append(evlog, "evaluate")
  /\ UNCHANGED <<spilog, srvVars, alignVars,
                 prog, hw, ctrlQ, sig, rd, ci, rdret, databuf, sh, id_counter,
                 traces, adc, snd, sent, woken, calllog, nDrained, held,
                 convReads, runs, prevTraces, workhead, payload0, maps,
                 handlers, adcfd, failedadcfd, adcmode, saved_trigger, ai,
                 testmode, endRun>>

(* ------------------------------ adcramp -------------------------------- *)
\* c & MASK_CMD
IsCmd(b) == (b \div MASK_CMD) % 2 = 1

\* c & MASK_ON
IsOn(b) == (b \div MASK_ON) % 2 = 1

\* (c & MASK_ADC) >> SH_ADC
CmdAdc(b) == (b \div (2 ^ SH_ADC)) % ((MASK_ADC \div (2 ^ SH_ADC)) + 1)

\* c & MASK_CHS
CmdChs(b) == b % (MASK_CHS + 1)

\* resp ++, resp a char
RespCount(r) == (r + 1) % 256

\* resp |= RESP_ERR
RespErr(r) == IF (r \div RESP_ERR) % 2 = 1 THEN r ELSE r + RESP_ERR

\* the file descriptor openspidev returned for ADC a, the socket being
\* opened before the SPI devices
SrvFd(a) == SpiFd(a) + 1

\* the condition of the loop of main: c != CMD_QUIT
LoopAgain(q) == q # CMD_QUIT

\* where continue and the end of the loop body lead
AfterBody(q) == IF LoopAgain(q) THEN "r_select" ELSE "r_close"

\* sock = opencontrolsock(); openspidev and spi_init for every ADC; every
\* failure ends in pabort
adcramp_open ==
  /\ prog = "adcramp"
  /\ pc = "r_open"
  /\ \/ /\ adcfd' = [a \in 0 .. NADC - 1 |-> SpiFd(a) + 1]
        /\ lastc' = 0
        /\ pc' = "r_select"
     \/ /\ pc' = "abort"
        /\ UNCHANGED <<adcfd, lastc>>
  /\ UNCHANGED <<prog, hw, ctrlQ, sig, rd, ci, rdret, databuf, sh, id_counter,
                 traces, adc, result, snd, sent, woken, calllog, nDrained,
                 held, evlog, convReads, runs, prevTraces, workhead, payload0,
                 maps, handlers, failedadcfd, adcmode, saved_trigger, ai,
                 testmode, endRun, spilog, msgQ, buf, resp, si, replies,
                 recvd, alignVars>>

\* len = recvfrom(sock, buf, MSGLEN, 0, ...): the first MSGLEN bytes of the
\* datagram are stored, the rest of a longer one is dropped
RecvLen(dg) == IF Len(dg) > MSGLEN THEN MSGLEN ELSE Len(dg)

\* buf after recvfrom has stored len bytes of dg
RecvBuf(b, dg, len) == [k \in 0 .. MSGLEN - 1 |-> IF k < len THEN dg[k + 1] ELSE b[k]]

\* select with its timeout, recvfrom, the length test, resp = RESP_BASE and
\* the sentinel
adcramp_recv ==
  /\ prog = "adcramp"
  /\ pc = "r_select"
  /\ IF msgQ = <<>>
     THEN /\ pc' = AfterBody(lastc)
          /\ UNCHANGED <<msgQ, buf, resp, si, recvd, spilog>>
     ELSE LET dg  == Head(msgQ)
              len == RecvLen(dg)
          IN  /\ msgQ' = Tail(msgQ)
              /\ recvd' = Append(recvd, Len(dg))
              /\ IF len # MSGLEN
                 THEN /\ buf' = RecvBuf(buf, dg, len)
                      /\ pc' = AfterBody(lastc)
                      /\ UNCHANGED <<resp, si, spilog>>
                 ELSE /\ buf' = [RecvBuf(buf, dg, len) EXCEPT ![MSGLEN - 1] = 0]
                      /\ resp' = RESP_BASE
                      /\ si' = 0
                      /\ spilog' = <<>>
                      /\ pc' = "r_scan"
  /\ UNCHANGED <<prog, hw, ctrlQ, sig, rd, ci, rdret, databuf, sh, id_counter,
                 traces, adc, result, snd, sent, woken, calllog, nDrained,
                 held, evlog, convReads, runs, prevTraces, workhead, payload0,
                 maps, handlers, adcfd, failedadcfd, adcmode, saved_trigger,
                 ai, testmode, endRun, lastc, replies, alignVars>>

\* the test mode a command byte asks for
CmdMode(b) == IF IsOn(b) THEN RAMPON ELSE RAMPOFF

\* one pass of the loop over buf: the test buf[i] != 0 and the loop body
adcramp_scan ==
  /\ prog = "adcramp"
  /\ pc = "r_scan"
  /\ IF buf[si] = 0
     THEN /\ pc' = "r_reply"
          /\ UNCHANGED <<lastc, resp, si, spilog, adcmode>>
     ELSE /\ lastc' = buf[si]
          /\ IF buf[si] = CMD_QUIT
             THEN /\ resp' = RespCount(resp)
                  /\ pc' = "r_reply"
                  /\ UNCHANGED <<si, spilog, adcmode>>
             ELSE IF IsCmd(buf[si])
             THEN IF CmdAdc(buf[si]) >= NADC
                  THEN /\ resp' = RespErr(resp)
                       /\ pc' = "r_reply"
                       /\ UNCHANGED <<si, spilog, adcmode>>
                  ELSE LET a  == CmdAdc(buf[si])
                           fd == adcfd[a]
                           m  == CmdMode(buf[si])
                           w1(ok) == SpiOp("chs", fd, CmdChs(buf[si]), ok, m)
                           w2(ok) == SpiOp("test", fd, m, ok, m)
                       IN  \/ /\ spilog' = spilog \o <<w1(TRUE), w2(TRUE)>>
                              /\ adcmode' = [adcmode EXCEPT ![a] = m]
                              /\ resp' = RespCount(resp)
                              /\ si' = si + 1
                              /\ pc' = "r_scan"
                           \/ /\ spilog' = Append(spilog, w1(FALSE))
                              /\ pc' = "abort"
                              /\ UNCHANGED <<adcmode, resp, si>>
                           \/ /\ spilog' = spilog \o <<w1(TRUE), w2(FALSE)>>
                              /\ pc' = "abort"
                              /\ UNCHANGED <<adcmode, resp, si>>
             ELSE /\ resp' = RespErr(resp)
                  /\ pc' = "r_reply"
                  /\ UNCHANGED <<si, spilog, adcmode>>
  /\ UNCHANGED <<prog, hw, ctrlQ, sig, rd, ci, rdret, databuf, sh, id_counter,
                 traces, adc, result, snd, sent, woken, calllog, nDrained,
                 held, evlog, convReads, runs, prevTraces, workhead, payload0,
                 maps, handlers, adcfd, failedadcfd, saved_trigger, ai,
                 testmode, endRun, msgQ, buf, replies, recvd, alignVars>>

\* buf[0] = resp; sendto(sock, buf, MSGLEN, ...); the loop condition
adcramp_reply ==
  /\ prog = "adcramp"
  /\ pc = "r_reply"
  /\ buf' = [buf EXCEPT ![0] = resp]
  /\ replies' = Append(replies, [k \in 1 .. MSGLEN |-> buf'[k - 1]])
  /\ pc' = AfterBody(lastc)
  /\ UNCHANGED <<prog, hw, ctrlQ, sig, rd, ci, rdret, databuf, sh, id_counter,
                 traces, adc, result, snd, sent, woken, calllog, nDrained,
                 held, evlog, convReads, runs, prevTraces, workhead, payload0,
                 maps, handlers, adcfd, failedadcfd, adcmode, saved_trigger,
                 ai, testmode, endRun, spilog, msgQ, lastc, resp, si, recvd,
                 alignVars>>

\* close(sock); close(adcfd[adc]) for every ADC; return 0
adcramp_close ==
  /\ prog = "adcramp"
  /\ pc = "r_close"
  /\ spilog' = spilog \o [a \in 1 .. NADC |-> SpiOp("close", adcfd[a - 1], 0, TRUE,
                                                    RAMPOFF)]
  /\ result' = 0
  /\ pc' = "exit"
  /\ UNCHANGED <<prog, hw, ctrlQ, sig, rd, ci, rdret, databuf, sh, id_counter,
                 traces, adc, snd, sent, woken, calllog, nDrained, held,
                 evlog, convReads, runs, prevTraces, workhead, payload0, maps,
                 handlers, adcfd, failedadcfd, adcmode, saved_trigger, ai,
                 testmode, endRun, srvVars, alignVars>>

(* --------------------------- specifications ---------------------------- *)
NoReads == [a \in 0 .. SHWR_RAW_NCH_MAX - 1 |-> <<>>]

\* the addresses the linker can give _databuf: 4-byte aligned, with the
\* whole array inside the address space
DatabufAddrs ==
  {a \in 0 .. AddrModulus - BackingBytes : a % 4 = 0}

\* nothing mapped, nothing registered, no SPI device open
InitRest ==
  /\ workhead = [n \in 1 .. FRAG_HEADER_SIZE |-> 0]
  /\ payload0 = ZeroBuf
  /\ maps = {}
  /\ handlers = <<>>
  /\ adcfd = NoAdcFd
  /\ failedadcfd = -1
  /\ adcmode = AdcAsFound
  /\ saved_trigger = 0
  /\ ai = 0
  /\ testmode = RAMPOFF
  /\ endRun = FALSE
  /\ spilog = <<>>
  /\ msgQ = <<>>
  /\ buf = NulBuf
  /\ lastc = 0
  /\ resp = 0
  /\ si = 0
  /\ replies = <<>>
  /\ recvd = <<>>
  /\ dbptr = 0

\* both tools at the start of main: netscope at its call of read_evt_init,
\* adc_check_ramp at the alignment of databuf
Init ==
  /\ prog \in {"netscope", "adc_check_ramp"}
  /\ pc = IF prog = "netscope" THEN "i_open" ELSE "m_align"
  /\ dbase \in IF prog = "netscope" THEN {0} ELSE {0, 4}
  /\ hw = HwInit
  /\ ctrlQ = <<>>
  /\ sig = 0 /\ rd = 0 /\ ci = 0 /\ rdret = RD_OK
  /\ databuf = ZeroBuf
  /\ sh = ZeroHeader
  /\ id_counter = 0
  /\ traces = ZeroTraces
  /\ adc = 0
  /\ result = -1
  /\ snd = [id |-> 0, start |-> 0, end |-> 0]
  /\ sent = <<>>
  /\ woken = FALSE
  /\ calllog = <<>>
  /\ nDrained = 0
  /\ held = {}
  /\ evlog = <<>>
  /\ convReads = NoReads
  /\ runs = 0
  /\ prevTraces = ZeroTraces
  /\ InitRest

Next ==
  \/ HwTrigger
  \/ CtrlArrive
  \/ check_ramp_align
  \/ check_ramp_openspi
  \/ read_evt_init_open
  \/ read_evt_init_mmap
  \/ read_evt_init_signal
  \/ read_evt_init_timer
  \/ netscope_setup
  \/ netscope_end
  \/ check_ramp_setup
  \/ adc_settestmode_chs
  \/ adc_settestmode_test
  \/ adc_settestmode_return
  \/ check_ramp_atexit_normal
  \/ exit_adc_normal
  \/ adc_normal_close
  \/ exit_restore_trigger
  \/ exit_read_evt_end
  \/ exit_done
  \/ read_evt_read_test
  \/ read_evt_read_wait
  \/ read_evt_read_rnum
  \/ read_evt_read_copy
  \/ read_evt_read_hdr
  \/ read_evt_read_release
  \/ read_evt_read_incr
  \/ senddata_header
  \/ senddata_fragment
  \/ senddata_return
  \/ netscope_poll
  \/ LED_trigger
  \/ check_ramp_read
  \/ convert_databuf_channel
  \/ check_ramp_evaluate

Spec == Init /\ [][Next]_vars

\* a staging buffer of the unit specification
PatBuf(seed) ==
  [k \in 0 .. DATASIZE - 1 |->
     HwWord(seed, k \div SHWR_NSAMPLES, k % SHWR_NSAMPLES)]

FullTraces ==
  [ch \in 0 .. SHWR_NCH_MAX - 1 |-> [i \in 0 .. SHWR_NSAMPLES - 1 |-> 4095]]

\* convert_databuf alone, on any staging buffer and start offset
InitConv ==
  /\ prog = "unit"
  /\ dbase = 0
  /\ pc = "cv_loop"
  /\ hw = HwInit
  /\ ctrlQ = <<>>
  /\ sig = 0 /\ rd = 0 /\ ci = 0 /\ rdret = RD_OK
  /\ \E seed \in 0 .. MaxSeed : databuf = PatBuf(seed)
  /\ \E s \in StartValues : sh = [ZeroHeader EXCEPT !.shwr_buf_start = s]
  /\ id_counter = 0
  /\ traces \in {ZeroTraces, FullTraces}
  /\ adc = 0
  /\ result = -1
  /\ snd = [id |-> 0, start |-> 0, end |-> 0]
  /\ sent = <<>>
  /\ woken = FALSE
  /\ calllog = <<>>
  /\ nDrained = 0
  /\ held = {}
  /\ evlog = <<>>
  /\ convReads = NoReads
  /\ runs = 0
  /\ prevTraces = ZeroTraces
  /\ InitRest

NextConv ==
  \/ convert_databuf_channel
  \/ convert_again

SpecConv == InitConv /\ [][NextConv]_vars

(* evaluate_ramp alone: ramps on every channel pair, with up to two samples
   replaced *)
\* first values of the ramps: 4094 wraps inside the trace
RampBases == {0, 4094}

\* values a sample is replaced by
DefectVals == {0, 1, 4094, 4095}

\* steps of the ramps: counting up, and counting down (-1 mod 4096)
RampSteps == {1, 4095}

\* trace[2c][i] = trace[2c+1][i] = (base + 7c + step*i) mod 4096
RampTraces(base, step) ==
  [ch \in 0 .. SHWR_NCH_MAX - 1 |->
     [i \in 0 .. SHWR_NSAMPLES - 1 |->
        (base + 7 * (ch \div 2) + step * i) % SHWR_MAX_VAL]]

\* no replacement, or sample i of sub-channel ch replaced by v
Defects ==
  {[ch |-> -1, i |-> 0, v |-> 0]} \cup
  [ch : 0 .. SHWR_NCH_MAX - 1, i : 0 .. SHWR_NSAMPLES - 1, v : DefectVals]

WithDefect(tr, d) == IF d.ch < 0 THEN tr ELSE [tr EXCEPT ![d.ch][d.i] = d.v]

InitRamp ==
  /\ prog = "unit"
  /\ dbase = 0
  /\ pc = "ev_call"
  /\ hw = HwInit
  /\ ctrlQ = <<>>
  /\ sig = 0 /\ rd = 0 /\ ci = 0 /\ rdret = RD_OK
  /\ databuf = ZeroBuf
  /\ sh = ZeroHeader
  /\ id_counter = 0
  /\ \E base \in RampBases : \E step \in RampSteps :
     \E d1 \in Defects : \E d2 \in Defects :
       /\ prevTraces = RampTraces(base, step)
       /\ traces = WithDefect(WithDefect(RampTraces(base, step), d1), d2)
  /\ adc = 0
  /\ result = -1
  /\ snd = [id |-> 0, start |-> 0, end |-> 0]
  /\ sent = <<>>
  /\ woken = FALSE
  /\ calllog = <<>>
  /\ nDrained = 0
  /\ held = {}
  /\ evlog = <<>>
  /\ convReads = NoReads
  /\ runs = 0
  /\ InitRest

NextRamp == evaluate_ramp_call

SpecRamp == InitRamp /\ [][NextRamp]_vars

\* the alignment of databuf alone, for every address of _databuf
InitAlign ==
  /\ prog = "adc_check_ramp"
  /\ pc = "m_align"
  /\ dbase \in DatabufAddrs
  /\ hw = HwInit
  /\ ctrlQ = <<>>
  /\ sig = 0 /\ rd = 0 /\ ci = 0 /\ rdret = RD_OK
  /\ databuf = ZeroBuf
  /\ sh = ZeroHeader
  /\ id_counter = 0
  /\ traces = ZeroTraces
  /\ adc = 0
  /\ result = -1
  /\ snd = [id |-> 0, start |-> 0, end |-> 0]
  /\ sent = <<>>
  /\ woken = FALSE
  /\ calllog = <<>>
  /\ nDrained = 0
  /\ held = {}
  /\ evlog = <<>>
  /\ convReads = NoReads
  /\ runs = 0
  /\ prevTraces = ZeroTraces
  /\ InitRest

NextAlign == check_ramp_align

SpecAlign == InitAlign /\ [][NextAlign]_vars

\* a command byte: ramp on or off for the channels chs of ADC a
CmdByte(a, on, chs) ==
  MASK_CMD + (IF on THEN MASK_ON ELSE 0) + a * (2 ^ SH_ADC) + chs

\* the valid command at position k of a message
CmdAt(k) == CmdByte(k % NADC, k % 2 = 0, 1 + (k % MASK_CHS))

\* bytes that end the scan: the quit command, a byte without the command
\* bit, a command for ADC 5, NUL
StopBytes == {CMD_QUIT, 1, CmdByte(NADC, TRUE, MASK_CHS), 0}

\* a datagram of len bytes: n valid commands, the byte stop, and behind it
\* quit commands (valid commands behind a quit command)
Message(n, stop, len) ==
  [k \in 1 .. len |->
     IF k - 1 < n THEN CmdAt(k - 1)
     ELSE IF k - 1 = n THEN stop
     ELSE IF stop = CMD_QUIT THEN CmdAt(k - 1) ELSE CMD_QUIT]

\* the datagrams sent to the control port: of the full length with 0 to 17
\* valid commands, and one byte shorter, one byte longer and empty
Messages ==
  {Message(n, stop, MSGLEN) : n \in 0 .. MSGLEN - 1, stop \in StopBytes} \cup
  {Message(n, CMD_QUIT, len) : n \in {0, 1}, len \in {0, MSGLEN - 1, MSGLEN + 1}}

\* a datagram arrives on the control port of adcramp
MsgArrive ==
  /\ prog = "adcramp"
  /\ pc \notin {"exit", "abort"}
  /\ Len(msgQ) < MaxCtrl
  /\ Len(recvd) + Len(msgQ) < MaxMsgs
  /\ \E dg \in Messages : msgQ' = Append(msgQ, dg)
  /\ UNCHANGED <<prog, pc, hw, ctrlQ, sig, rd, ci, rdret, databuf, sh,
                 id_counter, traces, adc, result, snd, sent, woken, calllog,
                 nDrained, held, evlog, convReads, runs, prevTraces, workhead,
                 payload0, maps, handlers, adcfd, failedadcfd, adcmode,
                 saved_trigger, ai, testmode, endRun, spilog, buf, lastc,
                 resp, si, replies, recvd, alignVars>>

\* adcramp at the start of main
InitAdcramp ==
  /\ prog = "adcramp"
  /\ pc = "r_open"
  /\ dbase = 0
  /\ hw = HwInit
  /\ ctrlQ = <<>>
  /\ sig = 0 /\ rd = 0 /\ ci = 0 /\ rdret = RD_OK
  /\ databuf = ZeroBuf
  /\ sh = ZeroHeader
  /\ id_counter = 0
  /\ traces = ZeroTraces
  /\ adc = 0
  /\ result = -1
  /\ snd = [id |-> 0, start |-> 0, end |-> 0]
  /\ sent = <<>>
  /\ woken = FALSE
  /\ calllog = <<>>
  /\ nDrained = 0
  /\ held = {}
  /\ evlog = <<>>
  /\ convReads = NoReads
  /\ runs = 0
  /\ prevTraces = ZeroTraces
  /\ InitRest

NextAdcramp ==
  \/ MsgArrive
  \/ adcramp_open
  \/ adcramp_recv
  \/ adcramp_scan
  \/ adcramp_reply
  \/ adcramp_close

SpecAdcramp == InitAdcramp /\ [][NextAdcramp]_vars

(* ------------------------------ claims --------------------------------- *)
Last(q) == q[Len(q)]

\* entries of the log of the current call of read_evt_read
LogOps(op) == {n \in 1 .. Len(calllog) : calllog[n].op = op}

\* C1: within one drain the write to the release register comes after the
\* copies of all 5 channels of the slot and after the header was read from
\* the registers; it writes the slot index that was copied and stored in the
\* header; nothing but the increment of the event id counter follows it, and
\* the counter is incremented only after it.
C1_ReleaseLast ==
  /\ \A n \in LogOps("release") :
       /\ n = SHWR_RAW_NCH_MAX + 2
       /\ \A c \in 0 .. SHWR_RAW_NCH_MAX - 1 :
            /\ calllog[c + 1].op = "copy"
            /\ calllog[c + 1].a = calllog[n].a * SHWR_NSAMPLES
            /\ calllog[c + 1].b = c * SHWR_NSAMPLES
       /\ calllog[n - 1].op = "hdr"
       /\ calllog[n - 1].a = calllog[n].a
       /\ sh.rd = calllog[n].a
       /\ \A m \in n + 1 .. Len(calllog) : calllog[m].op = "incr"
  /\ \A n \in LogOps("incr") :
       /\ n = SHWR_RAW_NCH_MAX + 3
       /\ calllog[n - 1].op = "release"
  /\ pc = "rd_incr" => LogOps("release") # {}

\* a drain of the last slot of the ring has released it and incremented the id
C1_Witness ==
  /\ LogOps("incr") # {}
  /\ calllog[SHWR_RAW_NCH_MAX + 2].a = SHWR_MEM_NBUF - 1
  /\ nDrained >= 2

\* the stages of the current event, in the order the tool runs them
IsPrefix(p, q) == Len(p) <= Len(q) /\ \A n \in 1 .. Len(p) : p[n] = q[n]

\* senddata has sent the header packet and fragments up to the payload's end
SendComplete ==
  /\ Len(sent) >= 2
  /\ sent[1].kind = "hdr"
  /\ \A n \in 2 .. Len(sent) : sent[n].kind = "frag"
  /\ Last(sent).end = NS_DATASIZE

C2_StagesInOrder ==
  (evlog # <<>> /\ evlog[1] = "read") =>
     IF prog = "adc_check_ramp"
     THEN IsPrefix(evlog, <<"read", "unpack", "evaluate">>)
     ELSE /\ Len(evlog) >= 2 => evlog[2] = "header"
          /\ \A n \in 3 .. Len(evlog) :
               \/ evlog[n] = "fragment"
               \/ evlog[n] = "sent" /\ n = Len(evlog) /\ SendComplete

C2_NothingHeld ==
  /\ held \subseteq {rd}
  /\ pc \in {"rd_test", "rd_wait", "rd_rnum"} => held = {}
  /\ pc \notin ReadPcs => held = {}

C2_ReadBegins ==
  (pc' = "rd_test" /\ pc \notin ReadPcs) =>
     /\ held = {}
     /\ evlog = <<>> \/ Last(evlog) = "sent"
     /\ (evlog # <<>> /\ evlog[1] = "read") => SendComplete

\* C2: one event is in flight at a time: the stages read, (unpack), dispatch
\* of an event are completed in that order before the next read begins, and
\* no read begins while a copied slot is not yet released.
C2_OneInFlight ==
  /\ [](C2_StagesInOrder /\ C2_NothingHeld)
  /\ [][C2_ReadBegins]_vars

\* the streaming loop is about to read again after a complete send of an event
C2_Witness ==
  /\ prog = "netscope"
  /\ pc = "n_poll"
  /\ evlog # <<>> /\ evlog[1] = "read" /\ Last(evlog) = "sent"
  /\ nDrained >= 2

\* C3 as stated: no drain starts without a wake-up received in the call, and
\* none while the flag is clear.
C3_DrainNeedsWakeup ==
  pc = "rd_rnum" => (woken /\ BufNFull(HwStatus) # 0)

\* C3, amended: a drain starts only while the buffer-full flag is set and
\* sig still is SIG_WAKEUP (no wait of the call failed); a wake-up is not
\* needed: with the flag set on entry the drain starts at once.
C3_DrainStart ==
  pc = "rd_rnum" => (BufNFull(HwStatus) # 0 /\ sig = SIG_WAKEUP)

\* a drain starts in a call that received no wake-up
C3_Witness == pc = "rd_rnum" /\ ~woken /\ nDrained >= 1

\* what a wake-up with the flag clear must leave alone
C4_Frame ==
  UNCHANGED <<hw, databuf, sh, id_counter, calllog, rdret, result, nDrained,
              held, sent, traces>>

\* C4: a wake-up delivered with the flag clear only re-enters the wait: no
\* event, no error return, no register write, staging buffer, header and
\* event id counter unchanged.
C4_WakeupFlagClear ==
  /\ [][(pc = "rd_wait" /\ pc' # "rd_wait" /\ sig' = SIG_WAKEUP)
          => (pc' = "rd_test" /\ C4_Frame)]_vars
  /\ [][(pc = "rd_test" /\ pc' # "rd_test" /\ woken /\ sig = SIG_WAKEUP
           /\ BufNFull(HwStatus) = 0)
          => (pc' = "rd_wait" /\ C4_Frame)]_vars

\* the wait is re-entered after a wake-up that found the flag clear
C4_Witness ==
  pc = "rd_wait" /\ woken /\ sig = SIG_WAKEUP /\ BufNFull(HwStatus) = 0
    /\ nDrained >= 1

\* slots the hardware has got back
HwReleased == hw.fired - hw.nfull

\* C5: the event id counter is 0 at first, goes up by exactly 1 (modulo the
\* width) with every drain and is unchanged by a call without data: it counts
\* the released slots, and the k-th event read carries id k-1.
C5_IdCountsDrains ==
  /\ nDrained = IF pc = "rd_incr" THEN HwReleased - 1 ELSE HwReleased
  /\ id_counter = nDrained % IdModulus
  /\ pc \in {"rd_release", "rd_incr"} => sh.id = nDrained % IdModulus
  /\ (pc = AfterRead /\ rdret = RD_OK /\ evlog = <<"read">>) =>
        sh.id = (nDrained - 1) % IdModulus
  /\ (pc \notin ReadPcs /\ rdret = RD_NODATA) => LogOps("incr") = {}

\* the id counter has wrapped: the event after id 2^w - 1 got id 0
C5_Witness ==
  /\ nDrained = IdModulus + 1
  /\ pc = AfterRead /\ rdret = RD_OK /\ sh.id = 0

\* a call returned no data after events had been read
C5_WitnessNoData == pc = AfterRead /\ rdret = RD_NODATA /\ nDrained >= 1

\* C6: between the return of read_evt_read and the next call no operation
\* changes a field of the header.
C6_HeaderImmutable == [][pc \notin ReadPcs => sh' = sh]_vars

\* bytes lo .. hi of a ring buffer map lie in the mapped window
InWindow(lo, hi) == 0 <= lo /\ hi < ShwrWindowBytes

\* C7: every copy of read_evt_read reads the words rd*SHWR_NSAMPLES ..
\* rd*SHWR_NSAMPLES + SHWR_NSAMPLES - 1 of a ring buffer, rd a slot index,
\* all inside the mapped window, and writes inside the staging buffer.
C7_CopyInBounds ==
  /\ pc \in {"rd_copy", "rd_hdr", "rd_release", "rd_incr"} =>
        rd \in 0 .. SHWR_MEM_NBUF - 1
  /\ \A n \in LogOps("copy") :
       /\ calllog[n].a = rd * SHWR_NSAMPLES
       /\ InWindow(4 * calllog[n].a, 4 * (calllog[n].a + SHWR_NSAMPLES) - 1)
       /\ calllog[n].b >= 0
       /\ calllog[n].b + SHWR_NSAMPLES - 1 <= DATASIZE - 1

\* all 5 channels of the last slot of the ring have been copied
C7_Witness ==
  /\ Cardinality(LogOps("copy")) = SHWR_RAW_NCH_MAX
  /\ rd = SHWR_MEM_NBUF - 1
  /\ calllog[SHWR_RAW_NCH_MAX].b = DATASIZE - SHWR_NSAMPLES

\* the staging word the claim names for sample i of raw channel c
RotatedWord(c, i) ==
  databuf[c * SHWR_NSAMPLES + ((sh.shwr_buf_start + i) % SHWR_NSAMPLES)]

\* C8: for a start offset s in 0 .. SHWR_NSAMPLES-1 convert_databuf yields
\* traces[2c][i] = w mod 4096 and traces[2c+1][i] = (w div 65536) mod 4096
\* with w = databuf[c*SHWR_NSAMPLES + ((s + i) mod SHWR_NSAMPLES)], and every
\* sample is in 0 .. 4095.
C8_Unpacked ==
  (pc \in {"cv_done", "t_eval"} /\ sh.shwr_buf_start \in 0 .. SHWR_NSAMPLES - 1)
    => \A c \in 0 .. SHWR_RAW_NCH_MAX - 1 : \A i \in 0 .. SHWR_NSAMPLES - 1 :
         /\ traces[2 * c][i] = RotatedWord(c, i) % 4096
         /\ traces[2 * c + 1][i] = (RotatedWord(c, i) \div 65536) % 4096
         /\ traces[2 * c][i] \in 0 .. 4095
         /\ traces[2 * c + 1][i] \in 0 .. 4095

\* a conversion with the last start offset of the slot, over samples that
\* were all 4095 before, of words with bits set beside the sample bits
C8_Witness ==
  /\ pc = "cv_done"
  /\ sh.shwr_buf_start = SHWR_NSAMPLES - 1
  /\ prevTraces = ZeroTraces /\ runs = 1
  /\ \E k \in DOMAIN databuf : databuf[k] \div 268435456 # 0
  /\ traces[SHWR_NCH_MAX - 1][SHWR_NSAMPLES - 1] # 4095
  /\ traces[SHWR_NCH_MAX - 1][0] # traces[SHWR_NCH_MAX - 1][SHWR_NSAMPLES - 1]

\* the indices read for raw channel c are a rotation of the channel's range
IsRotation(idx, c) ==
  LET lo == c * SHWR_NSAMPLES
      hi == (c + 1) * SHWR_NSAMPLES - 1
  IN  /\ \A n \in 1 .. Len(idx) : idx[n] \in lo .. hi
      /\ \A k \in lo .. hi : Cardinality({n \in 1 .. Len(idx) : idx[n] = k}) = 1
      /\ \A n \in 1 .. Len(idx) - 1 : idx[n] = hi => idx[n + 1] = lo

\* C9: for the start offset the hardware reported in the header, the words
\* convert_databuf reads for raw channel c are those of the channel's range,
\* each once, and the word read after the last of the range is its first.
C9_RotationInChannel ==
  \A c \in 0 .. SHWR_RAW_NCH_MAX - 1 :
    convReads[c] # <<>> => IsRotation(convReads[c], c)

\* the same for start offsets inside the slot
C9_RotationForStartInSlot ==
  sh.shwr_buf_start \in 0 .. SHWR_NSAMPLES - 1 => C9_RotationInChannel

\* C10: convert_databuf run twice on the same staging buffer and start
\* offset leaves the same Trace both times.
C10_SameTraceTwice == (pc = "cv_done" /\ runs = 2) => traces = prevTraces

\* convert_databuf changes neither the staging buffer nor the header
C10_Frame == [][pc = "cv_loop" => (databuf' = databuf /\ sh' = sh)]_vars

\* the same for start offsets inside the slot
C10_SameTraceForStartInSlot ==
  sh.shwr_buf_start \in 0 .. SHWR_NSAMPLES - 1 => C10_SameTraceTwice

\* bit c of a result
ResultBit(r, c) == (r \div (2 ^ c)) % 2

\* the failure of raw channel c as the claim states it
ChannelFails(tr, c) ==
  \E i \in 0 .. SHWR_NSAMPLES - 1 :
    \/ tr[2 * c][i] # tr[2 * c + 1][i]
    \/ (tr[2 * c][i] + i) % 4096 # tr[2 * c][0]

\* the trace with every sample outside the pair of raw channel c set to 0
OnlyPair(tr, c) ==
  [ch \in 0 .. SHWR_NCH_MAX - 1 |->
     IF ch \div 2 = c THEN tr[ch] ELSE [i \in 0 .. SHWR_NSAMPLES - 1 |-> 0]]

C11_Result ==
  pc = "ev_done" =>
    /\ result \in 0 .. 31
    /\ \A c \in 0 .. SHWR_RAW_NCH_MAX - 1 :
         /\ ResultBit(result, c) = 1 <=> ChannelFails(traces, c)
         /\ ResultBit(result, c) = ResultBit(evaluate_ramp(OnlyPair(traces, c)), c)

\* C11: evaluate_ramp returns a value in 0..31 whose bit c is set exactly if
\* some sample i of pair c has trace[2c][i] # trace[2c+1][i] or
\* (trace[2c][i] + i) mod 4096 # trace[2c][0]; the bit of channel c does not
\* depend on the samples of other channels; the Trace is not modified.
C11_RampBitmask ==
  /\ []C11_Result
  /\ [][pc = "ev_call" => traces' = traces]_vars

\* a result with a failed and a good channel, the failure not at sample 0 and
\* seen only by comparing the two sub-channels
C11_Witness ==
  /\ pc = "ev_done"
  /\ \E c \in 0 .. SHWR_RAW_NCH_MAX - 1 : \E g \in 0 .. SHWR_RAW_NCH_MAX - 1 :
       /\ ResultBit(result, c) = 1
       /\ ResultBit(result, g) = 0
       /\ traces[2 * c][0] = traces[2 * c + 1][0]
       /\ (traces[2 * c][SHWR_NSAMPLES - 1] + SHWR_NSAMPLES - 1) % 4096 = traces[2 * c][0]
       /\ traces[2 * c][SHWR_NSAMPLES - 1] # traces[2 * c + 1][SHWR_NSAMPLES - 1]

\* the samples in which two traces differ
DiffSamples(t1, t2) ==
  {p \in (0 .. SHWR_NCH_MAX - 1) \X (0 .. SHWR_NSAMPLES - 1) :
     t1[p[1]][p[2]] # t2[p[1]][p[2]]}

\* both sub-channels of every pair are ramps v[i] = (base_c + i) mod 4096
IsRampTrace(tr) ==
  \A c \in 0 .. SHWR_RAW_NCH_MAX - 1 : \A i \in 0 .. SHWR_NSAMPLES - 1 :
    /\ tr[2 * c][i] = (tr[2 * c][0] + i) % 4096
    /\ tr[2 * c + 1][i] = tr[2 * c][i]

\* C12: on a Trace of ramps evaluate_ramp returns 0; with exactly one sample
\* of one sub-channel of pair c changed, at any index and to any other 12-bit
\* value, it returns exactly 1 << c.
C12_SingleDefect ==
  pc = "ev_done" =>
    /\ IsRampTrace(traces) => result = 0
    /\ (IsRampTrace(prevTraces) /\ Cardinality(DiffSamples(traces, prevTraces)) = 1)
         => \A p \in DiffSamples(traces, prevTraces) :
              /\ traces[p[1]][p[2]] \in 0 .. 4095
              /\ result = 2 ^ (p[1] \div 2)

\* both sub-channels of every pair count down: v[i] = (base_c - i) mod 4096
IsDescendingTrace(tr) ==
  \A c \in 0 .. SHWR_RAW_NCH_MAX - 1 : \A i \in 0 .. SHWR_NSAMPLES - 1 :
    /\ (tr[2 * c][i] + i) % 4096 = tr[2 * c][0]
    /\ tr[2 * c + 1][i] = tr[2 * c][i]

\* the same for ramps that count down, which the test of evaluate_ramp accepts
C12_SingleDefectDescending ==
  pc = "ev_done" =>
    /\ IsDescendingTrace(traces) => result = 0
    /\ (IsDescendingTrace(prevTraces)
          /\ Cardinality(DiffSamples(traces, prevTraces)) = 1)
         => \A p \in DiffSamples(traces, prevTraces) :
              result = 2 ^ (p[1] \div 2)

\* a Trace of ramps counting up, without any changed sample, fails on every
\* channel
C12_RampUpFails ==
  /\ pc = "ev_done"
  /\ IsRampTrace(traces)
  /\ traces = prevTraces
  /\ result = 31

\* the fragments among the datagrams sent, as indices of sent
FragIndices == {n \in 1 .. Len(sent) : sent[n].kind = "frag"}

\* the payload parts of a set of fragments, concatenated in ascending order
\* of their start offsets
RECURSIVE ConcatAscending(_)
ConcatAscending(F) ==
  IF F = {} THEN <<>>
  ELSE LET n == CHOOSE n \in F :
                  \A m \in F : \/ sent[n].start < sent[m].start
                               \/ sent[n].start = sent[m].start /\ n <= m
       IN  sent[n].payload \o ConcatAscending(F \ {n})

\* the fragment with the highest start offset
LastFragment ==
  CHOOSE n \in FragIndices : \A m \in FragIndices : sent[m].start <= sent[n].start

\* C13: the payload parts of the fragments of one event, concatenated in
\* ascending order of start offset, are byte for byte the payload as it was in
\* the staging buffer when senddata was entered, although the fragment headers
\* are written into the buffer; the end offset of the last fragment is the
\* payload length.
C13_RoundTrip ==
  Len(sent) >= 2 =>
    LET got == ConcatAscending(FragIndices)
    IN  /\ got = SubSeq(PayloadBytes(payload0), 1, Len(got))
        /\ (evlog # <<>> /\ Last(evlog) = "sent") =>
              /\ Len(got) = NS_DATASIZE
              /\ sent[LastFragment].end = NS_DATASIZE

\* an event was sent whole, and the fragment headers have overwritten bytes of
\* its payload in the staging buffer
C13_Witness ==
  /\ evlog # <<>> /\ Last(evlog) = "sent"
  /\ rdret = RD_OK /\ nDrained >= 2
  /\ Cardinality(FragIndices) >= 2
  /\ databuf # payload0

\* C14: the header packet is sent before the fragments; the fragments follow
\* in increasing offset order without gap or overlap: the first starts at 0,
\* every later one where the one before ended, start < end; start and end
\* count payload bytes only and fit 16 bits; no fragment datagram is longer
\* than PACKETSIZE.
C14_FragmentOrder ==
  /\ sent # <<>> =>
       /\ sent[1].kind = "hdr"
       /\ \A n \in 2 .. Len(sent) : sent[n].kind = "frag"
  /\ Len(sent) >= 2 => sent[2].start = 0
  /\ \A n \in 3 .. Len(sent) : sent[n].start = sent[n - 1].end
  /\ \A n \in FragIndices :
       /\ sent[n].start < sent[n].end
       /\ sent[n].end <= NS_DATASIZE
       /\ Len(sent[n].payload) = sent[n].end - sent[n].start
       /\ sent[n].size = FRAG_HEADER_SIZE + sent[n].end - sent[n].start
       /\ sent[n].size <= PACKETSIZE
  /\ NS_DATASIZE < UINT16_MOD
  /\ 4 * SHWR_NSAMPLES_SOURCE * SHWR_RAW_NCH_MAX < UINT16_MOD

\* all fragments of a second event have been sent
C14_Witness ==
  /\ pc = "s_frag"
  /\ snd.end >= WBUFSIZE
  /\ Cardinality(FragIndices) >= 3
  /\ nDrained >= 2

\* the largest payload part of a fragment, and the fragments a payload needs
FragPayloadMax == PACKETSIZE - FRAG_HEADER_SIZE

FragsNeeded == (NS_DATASIZE + FragPayloadMax - 1) \div FragPayloadMax

C15_Counts ==
  /\ Cardinality(FragIndices) <= FragsNeeded
  /\ \A n \in FragIndices : sent[n].payload # <<>>
  /\ (evlog # <<>> /\ Last(evlog) = "sent") =>
       /\ Cardinality({n \in 1 .. Len(sent) : sent[n].kind = "hdr"}) = 1
       /\ Cardinality(FragIndices) = FragsNeeded
       /\ NS_DATASIZE = 3 * FragPayloadMax =>
            /\ Len(sent) = 4
            /\ \A k \in 0 .. 2 :
                 /\ sent[k + 2].start = k * FragPayloadMax
                 /\ sent[k + 2].end = (k + 1) * FragPayloadMax

\* C15: senddata sends 1 header packet and ceil(L / F) fragments for a payload
\* of L bytes and fragments of at most F payload bytes, none of them empty; 3
\* fragments [0,F), [F,2F), [2F,3F) for L = 3F; the fragment loop terminates:
\* every pass sends one fragment and moves end forward, never beyond endbuf.
C15_FragmentCount ==
  /\ []C15_Counts
  /\ [][(pc = "s_frag" /\ sent' # sent) =>
          /\ Len(sent') = Len(sent) + 1
          /\ snd'.end > snd.end
          /\ snd'.end <= WBUFSIZE]_vars
  /\ [][(pc = "s_frag" /\ pc' = "n_poll") => snd.end = WBUFSIZE]_vars

\* a payload of exactly three full fragments has been sent
C15_Witness ==
  /\ evlog # <<>> /\ Last(evlog) = "sent"
  /\ NS_DATASIZE = 3 * FragPayloadMax
  /\ Len(sent) = 4
  /\ sent[4].end = NS_DATASIZE

\* the top bit of an id
TopBit(id) == (id \div ID_TAG) % 2

\* C16: for every event sent the id of the header packet has its top bit set
\* and every fragment carries the same event id with the top bit clear.
C16_TagBit ==
  \A n \in 1 .. Len(sent) :
    IF sent[n].kind = "hdr"
    THEN TopBit(sent[n].id) = 1
    ELSE /\ TopBit(sent[n].id) = 0
         /\ sent[n].id + ID_TAG = sent[1].id

\* the same for an event that read_evt_read has just read, while the counter
\* is below the top bit
C16_TagBitOfFreshEvent ==
  (rdret = RD_OK /\ snd.id < ID_TAG) => C16_TagBit

\* after a read without data senddata has sent the header of the first event
\* again, and a fragment with the tagged id
C16_StaleHeaderResent ==
  /\ nDrained = 1
  /\ rdret = RD_NODATA
  /\ Len(sent) >= 2
  /\ sent[2].kind = "frag"
  /\ TopBit(sent[2].id) = 1

\* the positions of the loop body of the streaming tool
LoopBodyPcs == ReadPcs \cup {"s_hdr", "s_frag"}

\* a step of the poll of the control port
PollStep == pc = "n_poll" /\ pc' # "n_poll"

\* the poll is made once per iteration and before the read, and never waits
C17_PollOncePerIteration ==
  /\ (prog = "netscope" /\ pc \notin ReadPcs /\ pc' = "rd_test") => pc = "n_poll"
  /\ (pc = "s_frag" /\ pc' \notin {"s_frag", "exit", "x_next"}) => pc' = "n_poll"
  /\ PollStep => Len(ctrlQ') >= Len(ctrlQ) - 1

\* C17: the streaming loop polls the control port once per iteration, before
\* the read and without blocking; a poll that receives a datagram, whatever
\* its length (0 included), ends the loop without a further read or send; a
\* poll that receives nothing continues the loop without error.
C17_PollEndsLoop ==
  [][/\ C17_PollOncePerIteration
     /\ (PollStep /\ ctrlQ # <<>>) => (pc' = "n_end" /\ sent' = sent)
     /\ (PollStep /\ ctrlQ = <<>>) => (pc' = "rd_test" /\ result' = result)]_vars

\* the same for datagrams of at least one byte
C17_PollEndsLoopNonEmpty ==
  [][/\ C17_PollOncePerIteration
     /\ (PollStep /\ ctrlQ # <<>> /\ ctrlQ[1] >= 1) =>
           (pc' = "n_end" /\ sent' = sent)
     /\ (PollStep /\ ctrlQ = <<>>) => (pc' = "rd_test" /\ result' = result)]_vars

\* the arrival of a datagram leaves the program where it is
ArrivalInterruptsNothing ==
  Len(ctrlQ') > Len(ctrlQ) =>
    UNCHANGED <<pc, sent, snd, sh, databuf, workhead, result, evlog>>

\* the loop body is left only to the poll, or by a failing sendto
BodyRunsToPoll ==
  (prog = "netscope" /\ pc \in LoopBodyPcs /\ pc' \notin LoopBodyPcs) =>
     \/ pc' = "n_poll" /\ SendComplete
     \/ pc' = "exit" /\ result' = EXIT_NETSCOPE /\ pc \in {"s_hdr", "s_frag"}

\* C18: a control datagram that arrives while an event is read or sent does
\* not interrupt it: header packet and all fragments of the event are sent,
\* then the loop ends at the next poll; no event is left with an incomplete
\* fragment sequence and none is started after the poll has seen the datagram.
C18_StopNotPreemptive ==
  /\ [](pc = "n_end" => (sent = <<>> \/ SendComplete))
  /\ [][ArrivalInterruptsNothing /\ BodyRunsToPoll]_vars
  /\ [][(PollStep /\ ctrlQ # <<>>) => pc' = "n_end"]_vars

\* the same for datagrams of at least one byte
C18_StopNotPreemptiveNonEmpty ==
  /\ [](pc = "n_end" => (sent = <<>> \/ SendComplete))
  /\ [][ArrivalInterruptsNothing /\ BodyRunsToPoll]_vars
  /\ [][(PollStep /\ ctrlQ # <<>> /\ ctrlQ[1] >= 1) => pc' = "n_end"]_vars

\* the loop has ended on a datagram that arrived during the send of an event
C18_StoppedAfterSend ==
  /\ pc = "n_end"
  /\ SendComplete
  /\ nDrained >= 1

\* C19: on every exit path of both tools read_evt_end is run and no region
\* mapped by read_evt_init is left mapped when the process terminates.
C19_AllUnmappedAtExit ==
  pc = "exit" => (endRun /\ maps = {})

\* the same for the exits of the self-test after read_evt_init has returned,
\* when no ADC write fails during exit, and for the normal return of the
\* streaming tool
C19_UnmappedOnRegisteredPaths ==
  /\ (pc = "exit" /\ prog = "adc_check_ramp" /\ saved_trigger # 0
        /\ (failedadcfd = -1 \/ testmode = RAMPON))
       => (endRun /\ maps = {})
  /\ (pc = "exit" /\ prog = "netscope" /\ result = 0) => (endRun /\ maps = {})

\* the self-test has ended on a failing mmap of a ring buffer: read_evt_end
\* was not run, what was mapped before is left mapped
C19_LeakAfterInitFailure ==
  /\ pc = "exit"
  /\ prog = "adc_check_ramp"
  /\ result = EXIT_EVTMAPSHWR
  /\ ~ endRun
  /\ <<"regs", 0>> \in maps

\* the streaming tool has ended on a failing sendto: read_evt_end was not run
C19_LeakAfterSendFailure ==
  /\ pc = "exit"
  /\ prog = "netscope"
  /\ result = EXIT_NETSCOPE
  /\ sent # <<>>
  /\ ~ endRun
  /\ Cardinality(maps) = Len(Regions)

\* an ADC has been written the ramp code
RampWritten == \E a \in 0 .. SHWR_RAW_NCH_MAX - 1 : adcmode[a] # -1

\* C20: on every exit path of the self-test taken after an ADC has been
\* written the ramp code, every ADC that is not marked failed has been written
\* the off code and the trigger mask register holds its saved value when the
\* process terminates.
C20_RampOffAtExit ==
  (pc = "exit" /\ prog = "adc_check_ramp" /\ RampWritten) =>
     /\ \A a \in 0 .. SHWR_RAW_NCH_MAX - 1 :
          SpiFd(a) # failedadcfd => adcmode[a] = RAMPOFF
     /\ hw.mask = saved_trigger

\* the same when no ADC write has failed
C20_RampOffWithoutWriteFailure ==
  failedadcfd = -1 => C20_RampOffAtExit

\* the self-test has ended on a failing write to the second ADC while ramp
\* mode was being set: the first ADC is left in ramp mode
C20_RampLeftOn ==
  /\ pc = "exit"
  /\ result = EXIT_SPIWRITE
  /\ testmode = RAMPON
  /\ failedadcfd = SpiFd(1)
  /\ adcmode[0] = RAMPON
  /\ hw.mask = saved_trigger

\* the self-test has ended on a failing write to the first ADC in adc_normal:
\* the other ADCs are left in ramp mode
C20_RampLeftOnByNormal ==
  /\ pc = "exit"
  /\ testmode = RAMPOFF
  /\ failedadcfd = SpiFd(0)
  /\ handlers = <<>>
  /\ \A a \in 1 .. SHWR_RAW_NCH_MAX - 1 : adcmode[a] = RAMPON


\* the entries of spilog whose transfer did not complete
FailedWrites == {n \in 1 .. Len(spilog) : ~spilog[n].ok}

\* ADC a got its channel-select write and then its test-mode write of mode m
WrittenPair(a, m) ==
  \E k, n \in 1 .. Len(spilog) :
    /\ k < n
    /\ spilog[k] = SpiOp("chs", SpiFd(a), MASK_CHS, TRUE, m)
    /\ spilog[n] = SpiOp("test", SpiFd(a), m, TRUE, m)

\* C21: a register write that fails inside adc_settestmode is not fatal: the
\* device is marked failed, and every other device, also one of a higher
\* index, still receives its channel-select and its test-mode write
C21_WriteFailureNotFatal ==
  (prog = "adc_check_ramp" /\ pc = "exit") =>
    \A n \in FailedWrites :
      /\ result # EXIT_SPIWRITE
      /\ failedadcfd = spilog[n].fd
      /\ \A a \in 0 .. SHWR_RAW_NCH_MAX - 1 :
           SpiFd(a) # spilog[n].fd => WrittenPair(a, spilog[n].mode)

\* C21, what the code does: the failing write is the last one of the process,
\* the device is marked and the exit status is EXIT_SPIWRITE
C21_WriteFailureFatal ==
  \A n \in FailedWrites :
    /\ n = Len(spilog)
    /\ failedadcfd = spilog[n].fd
    /\ result = EXIT_SPIWRITE

\* C21: the write to ADC 0 failed and the process ended with no write to ADC 4
C21_HigherIndexNotWritten ==
  /\ prog = "adc_check_ramp" /\ pc = "exit"
  /\ \E n \in FailedWrites : spilog[n].fd = SpiFd(0)
  /\ \A n \in 1 .. Len(spilog) : spilog[n].fd # SpiFd(4)

\* C22: once an ADC is marked failed no later call of adc_settestmode or
\* adc_normal writes a register of it, for every device that failed
C22_NoWriteToFailed ==
  \A n \in FailedWrites : \A k \in 1 .. Len(spilog) :
    (k > n /\ spilog[k].op \in {"chs", "test"}) => spilog[k].fd # spilog[n].fd

\* C22: adc_settestmode runs while a device is marked failed
C22_CallAfterFailure ==
  failedadcfd # -1 /\ pc \in {"a_chs", "a_test", "x_close"}

\* C22: no call of adc_settestmode or adc_normal follows a failed write
C22_NoCallAfterFailure == ~C22_CallAfterFailure

\* C29: for every 4-byte aligned address of _databuf, databuf is at an
\* address of the form 8n + 4, 0 to 2 words behind the start of _databuf, the
\* DATASIZE words from databuf end inside _databuf, and the alignment check
\* does not exit
C29_DatabufAligned ==
  (prog = "adc_check_ramp" /\ pc # "m_align" /\ dbase % 4 = 0) =>
    /\ dbptr % 8 = 4
    /\ dbptr - dbase \in {0, 4, 8}
    /\ dbptr + 4 * DATASIZE <= dbase + BackingBytes
    /\ result # EXIT_BUFALIGN

\* C29: _databuf at an address of the form 8n + 4, databuf two words behind
\* it, its DATASIZE words ending with the array
C29_Witness ==
  /\ pc = "m_spi"
  /\ dbase % 8 = 4
  /\ dbptr = dbase + 8
  /\ dbptr + 4 * DATASIZE = dbase + BackingBytes

\* main of adc_check_ramp has called evaluate_ramp
Evaluated == \E n \in 1 .. Len(evlog) : evlog[n] = "evaluate"

\* C23: the exit status of adc_check_ramp is 0 exactly when one event was read
\* and all 5 channels passed; a run that reaches the evaluation ends with the
\* evaluator's bitmask, also when the cleanup fails; every operational
\* failure, a read without an event included, gives a status of 32 or more
C23_ExitStatus ==
  (prog = "adc_check_ramp" /\ pc = "exit") =>
    /\ (result = 0) <=>
         (Evaluated /\ nDrained = 1 /\ evaluate_ramp(traces) = 0)
    /\ Evaluated => result = evaluate_ramp(traces)
    /\ (~Evaluated \/ nDrained = 0) => result >= EXIT_NOPER

\* C23, without a failing read and without a failing cleanup
C23_ExitStatusOfCleanRun ==
  (prog = "adc_check_ramp" /\ pc = "exit") =>
    /\ (Evaluated /\ FailedWrites = {}) => result = evaluate_ramp(traces)
    /\ ~Evaluated => result >= EXIT_NOPER

\* C23: no event was read and the exit status is the bitmask 31
C23_NoEventStatus ==
  /\ prog = "adc_check_ramp" /\ pc = "exit"
  /\ Evaluated /\ nDrained = 0
  /\ result = 31

\* C23: the evaluation gave a bitmask and the exit status is EXIT_SPIWRITE
C23_CleanupStatus ==
  /\ prog = "adc_check_ramp" /\ pc = "exit"
  /\ Evaluated /\ nDrained = 1
  /\ evaluate_ramp(traces) < EXIT_NOPER
  /\ result = EXIT_SPIWRITE

\* the entries of spilog that are register writes
RegWrites == {n \in 1 .. Len(spilog) : spilog[n].op \in {"chs", "test"}}

\* the entries of spilog that are closes
Closes == {n \in 1 .. Len(spilog) : spilog[n].op = "close"}

\* C25: every test-mode write follows at once the channel-select write (both
\* channels) to the same ADC in the same call; every close follows the write
\* of the off code to every ADC not marked failed; after adc_normal every
\* handle is marked unopened; no register write goes to a closed or unopened
\* link
C25_WriteOrder ==
  prog = "adc_check_ramp" =>
    /\ \A n \in RegWrites :
         spilog[n].op = "test" =>
           /\ n > 1
           /\ spilog[n - 1] =
                SpiOp("chs", spilog[n].fd, MASK_CHS, TRUE, spilog[n].mode)
    /\ \A k \in Closes : \A a \in 0 .. SHWR_RAW_NCH_MAX - 1 :
         SpiFd(a) # failedadcfd =>
           \E n \in 1 .. k - 1 :
             spilog[n] = SpiOp("test", SpiFd(a), RAMPOFF, TRUE, RAMPOFF)
    /\ Closes # {} => adcfd = NoAdcFd
    /\ \A n \in RegWrites :
         /\ spilog[n].fd >= 0
         /\ \A k \in Closes : k > n

\* C25: adc_normal has run to its end: ramp on and ramp off were written to
\* all 5 ADCs and all 5 links were closed after that
C25_Witness ==
  /\ prog = "adc_check_ramp"
  /\ Cardinality(RegWrites) = 4 * SHWR_RAW_NCH_MAX
  /\ Cardinality(Closes) = SHWR_RAW_NCH_MAX
  /\ adcfd = NoAdcFd

\* the order in which main registers the exit functions
RegistrationOrder == <<"read_evt_end", "restore_trigger", "adc_normal">>

\* C26: the exit functions run in the reverse of their registration (the
\* ADCs, then the trigger mask, then the unmapping), and when the process
\* has ended the trigger mask register holds the value saved from it
C26_MaskRestoredAtExit ==
  prog = "adc_check_ramp" =>
    /\ IsPrefix(handlers, RegistrationOrder)
    /\ pc = "exit" => hw.mask = TrigMaskAsFound

\* C26: restore_trigger runs while the trigger registers are mapped, and the
\* trigger mask is not written once read_evt_end has unmapped them
C26_CleanupOrder ==
  /\ [](prog = "adc_check_ramp" => IsPrefix(handlers, RegistrationOrder))
  /\ [][(prog = "adc_check_ramp" /\ hw'.mask # hw.mask) =>
          (~endRun /\ <<"regs", 0>> \in maps)]_vars

\* C26: the process has ended with the trigger mask still set to the LED
\* trigger, after a write failed inside adc_normal
C26_MaskLeftAtLed ==
  /\ prog = "adc_check_ramp" /\ pc = "exit"
  /\ hw.mask = SHWR_BUF_TRIG_LED
  /\ Evaluated
  /\ FailedWrites # {}

\* C27: whatever netscope sends belongs to an event the read_evt_read call
\* before it drained: after a call that returned the no-data result nothing
\* is sent
C27_NothingSentWithoutEvent ==
  (prog = "netscope" /\ sent # <<>>) => rdret = RD_OK

\* C27: an event was sent, the next call of read_evt_read returned the
\* no-data result, and a header and a fragment were sent nevertheless
C27_StaleEventResent ==
  /\ prog = "netscope"
  /\ nDrained >= 1
  /\ rdret = RD_NODATA
  /\ Len(sent) >= 2

\* the error bit of a status byte
ErrBit(r) == (r \div RESP_ERR) % 2

\* the scan of buf has stopped at an unknown command byte or at a command
\* for an ADC index of NADC or more
StoppedAtError ==
  /\ buf[si] # 0
  /\ buf[si] # CMD_QUIT
  /\ IsCmd(buf[si]) => CmdAdc(buf[si]) >= NADC

\* the replies sent, and the datagrams of the full length received, before
\* the message in work
RepliesMatchFullLength ==
  Len(replies) = Cardinality({n \in 1 .. Len(recvd) : recvd[n] = MSGLEN})

\* C24: adcramp sends one reply for every received datagram of MSGLEN bytes
\* and none for another length, and the error bit of the status byte is set
\* exactly when the scan stopped at an unknown command or at an ADC index
\* of 5 or more, for 0 to 17 valid commands
C24_ReplyAndErrorBit ==
  prog = "adcramp" =>
    /\ pc \in {"r_select", "r_close", "exit"} => RepliesMatchFullLength
    /\ pc = "r_reply" => (ErrBit(resp) = 1 <=> StoppedAtError)

\* C24, for fewer than 16 counted commands and datagrams of at most MSGLEN
\* bytes
C24_ErrorBitOfShortCount ==
  prog = "adcramp" =>
    /\ (pc \in {"r_select", "r_close", "exit"}
          /\ \A n \in 1 .. Len(recvd) : recvd[n] <= MSGLEN)
         => RepliesMatchFullLength
    /\ (pc = "r_reply" /\ si < RESP_ERR - 1)
         => (ErrBit(resp) = 1 <=> StoppedAtError)

\* C24: 16 valid commands were executed, the scan stopped at a NUL byte and
\* the status byte has the error bit
C24_ErrorBitWithoutError ==
  /\ prog = "adcramp" /\ pc = "r_reply"
  /\ si = RESP_ERR
  /\ buf[si] = 0
  /\ ErrBit(resp) = 1

\* C24: a datagram of MSGLEN + 1 bytes was received and answered
C24_ReplyToLongDatagram ==
  /\ prog = "adcramp" /\ pc = "r_close"
  /\ recvd = <<MSGLEN + 1>>
  /\ Len(replies) = 1

\* a byte is a command for one of the NADC ADCs
IsValidCmd(b) == b # 0 /\ b # CMD_QUIT /\ IsCmd(b) /\ CmdAdc(b) < NADC

\* C28: the scan executes the commands in order up to the first quit
\* command, invalid byte, ADC index out of range or NUL byte and nothing
\* behind it; the loop of main ends exactly when the scan of a datagram of
\* MSGLEN bytes stopped at a quit command
C28_ScanAndQuit ==
  prog = "adcramp" =>
    /\ pc = "r_reply" =>
         /\ si <= MSGLEN - 1
         /\ \A k \in 0 .. si - 1 : IsValidCmd(buf[k])
         /\ ~IsValidCmd(buf[si])
         /\ Len(spilog) = 2 * si
         /\ \A k \in 0 .. si - 1 :
              /\ spilog[2 * k + 1] =
                   SpiOp("chs", adcfd[CmdAdc(buf[k])], CmdChs(buf[k]), TRUE,
                         CmdMode(buf[k]))
              /\ spilog[2 * k + 2] =
                   SpiOp("test", adcfd[CmdAdc(buf[k])], CmdMode(buf[k]), TRUE,
                         CmdMode(buf[k]))
    /\ pc \in {"r_close", "exit"} =>
         /\ recvd # <<>>
         /\ recvd[Len(recvd)] = MSGLEN
         /\ lastc = CMD_QUIT
    /\ pc = "r_select" => lastc # CMD_QUIT

\* C28, for datagrams of at most MSGLEN bytes
C28_ScanAndQuitNoLongDatagram ==
  (\A n \in 1 .. Len(recvd) : recvd[n] <= MSGLEN) => C28_ScanAndQuit

\* C28: the loop has ended on a quit command in a datagram of MSGLEN + 1
\* bytes
C28_QuitByLongDatagram ==
  /\ prog = "adcramp" /\ pc = "exit"
  /\ recvd # <<>>
  /\ recvd[Len(recvd)] = MSGLEN + 1
  /\ lastc = CMD_QUIT

=============================================================================
